---- MODULE Spec2Model ----
(***************************************************************************)
(* Model of the AI ticket booking pipeline: main.py, the LangGraph         *)
(* workflow of workflows/booking_workflow.py and the five agents it runs.  *)
(*                                                                         *)
(* Python strings that the code inspects (request text, console input,     *)
(* durations, departure times, carrier names) are sequences of             *)
(* one-character strings, so that lower(), strip(), "in", startswith(),    *)
(* split(), int() and the regular expressions are computed, not assumed.   *)
(***************************************************************************)
EXTENDS Integers, Sequences, FiniteSets, TLC

\* ------------------------------------------------------------------------
\* Bounds of the model
\* ------------------------------------------------------------------------
\* longest offer list handed to the sorter (SpecSort)
MaxOffers == 3
\* most fragments a request text is made of (SpecSort)
MaxWords == 2
\* most adults the parsed request asks for
MaxAdults == 2
\* most adults when every passenger prompt is given its full set of inputs
\* (SpecBooking)
MaxAdultsWide == 1
\* most segments of an itinerary in the provider's offer data (SpecOffer)
MaxSegments == 2
\* most tool calls in one response of the LLM (SpecParse)
MaxToolCalls == 2

\* ------------------------------------------------------------------------
\* Python str operations
\* ------------------------------------------------------------------------
\* the characters the model's strings are made of, in code point order
Alphabet ==
  <<" ", "+", ",", "-", ".",
    "0", "1", "2", "3", "4", "5", "6", "7", "8", "9", ":", "@",
    "A", "B", "C", "D", "E", "F", "G", "H", "I", "J", "K", "L", "M",
    "N", "O", "P", "Q", "R", "S", "T", "U", "V", "W", "X", "Y", "Z",
    "a", "b", "c", "d", "e", "f", "g", "h", "i", "j", "k", "l", "m",
    "n", "o", "p", "q", "r", "s", "t", "u", "v", "w", "x", "y", "z">>

Chars == {Alphabet[i] : i \in 1..Len(Alphabet)}

\* ord(c), as the place of c in the alphabet
OrdTable == [c \in Chars |-> CHOOSE i \in 1..Len(Alphabet) : Alphabet[i] = c]

Ord(c) == OrdTable[c]

Digits == {"0", "1", "2", "3", "4", "5", "6", "7", "8", "9"}

IsDigit(c) == c \in Digits

DigitVal(c) == OrdTable[c] - OrdTable["0"]

SetMin(S) == CHOOSE x \in S : \A y \in S : x <= y

SetMax(S) == CHOOSE x \in S : \A y \in S : x >= y

LowerTable ==
  [c \in Chars |->
     IF OrdTable[c] >= OrdTable["A"] /\ OrdTable[c] <= OrdTable["Z"]
     THEN Alphabet[OrdTable[c] + (OrdTable["a"] - OrdTable["A"])] ELSE c]

UpperTable ==
  [c \in Chars |->
     IF OrdTable[c] >= OrdTable["a"] /\ OrdTable[c] <= OrdTable["z"]
     THEN Alphabet[OrdTable[c] - (OrdTable["a"] - OrdTable["A"])] ELSE c]

\* str.lower() and str.upper()
Lower(s) == [i \in 1..Len(s) |-> LowerTable[s[i]]]

Upper(s) == [i \in 1..Len(s) |-> UpperTable[s[i]]]

\* str.strip(): leading and trailing blanks removed
Strip(s) ==
  LET keep == {i \in 1..Len(s) : s[i] # " "}
  IN  IF keep = {} THEN <<>> ELSE SubSeq(s, SetMin(keep), SetMax(keep))

\* k in s
Contains(s, k) ==
  \E i \in 1..(Len(s) - Len(k) + 1) : SubSeq(s, i, i + Len(k) - 1) = k

\* any(keyword in s for keyword in keywords)
AnyKeywordIn(keywords, s) == \E i \in 1..Len(keywords) : Contains(s, keywords[i])

\* s.startswith(k)
StartsWith(s, k) == Len(s) >= Len(k) /\ SubSeq(s, 1, Len(k)) = k

\* s.replace(c, ""), for a one-character c
RECURSIVE RemoveChar(_, _)
RemoveChar(s, c) ==
  IF s = <<>> THEN <<>>
  ELSE IF Head(s) = c THEN RemoveChar(Tail(s), c)
  ELSE <<Head(s)>> \o RemoveChar(Tail(s), c)

\* s.isdigit()
IsDigits(s) == s # <<>> /\ \A i \in 1..Len(s) : IsDigit(s[i])

\* the value of a run of decimal digits
RECURSIVE DecimalValue(_)
DecimalValue(s) ==
  IF s = <<>> THEN 0
  ELSE 10 * DecimalValue(SubSeq(s, 1, Len(s) - 1)) + DigitVal(s[Len(s)])

\* a < b on str: by code point, a proper prefix first
StrLess(a, b) ==
  LET n == IF Len(a) < Len(b) THEN Len(a) ELSE Len(b)
      d == {i \in 1..n : a[i] # b[i]}
  IN  IF d = {} THEN Len(a) < Len(b)
      ELSE Ord(a[SetMin(d)]) < Ord(b[SetMin(d)])

\* s.split()[1]: the second blank-separated word, <<>> standing for IndexError
SplitSecond(s) ==
  LET t == Strip(s)
      blanks == {i \in 1..Len(t) : t[i] = " "}
  IN  IF blanks = {} THEN <<>>
      ELSE LET rest == Strip(SubSeq(t, SetMin(blanks), Len(t)))
               more == {i \in 1..Len(rest) : rest[i] = " "}
           IN  IF more = {} THEN rest ELSE SubSeq(rest, 1, SetMin(more) - 1)

\* int(s) accepts an optional sign and decimal digits; anything else is a
\* ValueError
IsIntLiteral(s) ==
  LET t == Strip(s)
  IN  /\ t # <<>>
      /\ IF t[1] \in {"+", "-"} THEN IsDigits(Tail(t)) ELSE IsDigits(t)

IntOf(s) ==
  LET t == Strip(s)
  IN  IF t[1] = "-" THEN 0 - DecimalValue(Tail(t))
      ELSE IF t[1] = "+" THEN DecimalValue(Tail(t))
      ELSE DecimalValue(t)

\* ------------------------------------------------------------------------
\* FlightPresentationAgent: the sorter (agents/presentation_agent.py)
\* ------------------------------------------------------------------------
\* the keyword lists of _detect_sorting_preference, in the order it tests them
PriceLowKeywords ==
  <<<<"c", "h", "e", "a", "p", "e", "s", "t">>, <<"c", "h", "e", "a", "p">>, <<"l", "o", "w", "e", "s", "t", " ", "p", "r", "i", "c", "e">>, <<"b", "u", "d", "g", "e", "t">>, <<"a", "f", "f", "o", "r", "d", "a", "b", "l", "e">>, <<"i", "n", "e", "x", "p", "e", "n", "s", "i", "v", "e">>>>

PriceHighKeywords ==
  <<<<"e", "x", "p", "e", "n", "s", "i", "v", "e">>, <<"p", "r", "e", "m", "i", "u", "m">>, <<"l", "u", "x", "u", "r", "y">>, <<"f", "i", "r", "s", "t", " ", "c", "l", "a", "s", "s">>, <<"b", "u", "s", "i", "n", "e", "s", "s", " ", "c", "l", "a", "s", "s">>>>

EarlyKeywords == <<<<"e", "a", "r", "l", "y", " ", "m", "o", "r", "n", "i", "n", "g">>, <<"e", "a", "r", "l", "y">>, <<"f", "i", "r", "s", "t", " ", "f", "l", "i", "g", "h", "t">>, <<"m", "o", "r", "n", "i", "n", "g">>>>

LateKeywords == <<<<"l", "a", "t", "e">>, <<"e", "v", "e", "n", "i", "n", "g">>, <<"n", "i", "g", "h", "t">>, <<"a", "f", "t", "e", "r">>, <<"p", "m">>>>

FastKeywords == <<<<"f", "a", "s", "t", "e", "s", "t">>, <<"q", "u", "i", "c", "k", "e", "s", "t">>, <<"s", "h", "o", "r", "t", "e", "s", "t">>, <<"q", "u", "i", "c", "k">>, <<"f", "a", "s", "t">>>>

DirectKeywords == <<<<"d", "i", "r", "e", "c", "t">>, <<"n", "o", "n", "-", "s", "t", "o", "p">>, <<"n", "o", "n", "s", "t", "o", "p">>, <<"n", "o", " ", "s", "t", "o", "p", "s">>, <<"n", "o", " ", "c", "o", "n", "n", "e", "c", "t", "i", "o", "n", "s">>>>

AirlineKeywords ==
  <<<<"a", "m", "e", "r", "i", "c", "a", "n">>, <<"d", "e", "l", "t", "a">>, <<"u", "n", "i", "t", "e", "d">>, <<"l", "u", "f", "t", "h", "a", "n", "s", "a">>, <<"e", "m", "i", "r", "a", "t", "e", "s">>, <<"q", "a", "t", "a", "r">>,
    <<"s", "i", "n", "g", "a", "p", "o", "r", "e">>, <<"b", "r", "i", "t", "i", "s", "h", " ", "a", "i", "r", "w", "a", "y", "s">>>>

\* a chain of tests whose fourth and fifth are exchanged
DetectLateAfterFastest(user_prompt) ==
  LET prompt_lower == Lower(user_prompt)
  IN  IF AnyKeywordIn(PriceLowKeywords, prompt_lower)
        THEN [type |-> "price_low", description |-> "Cheapest flights first"]
      ELSE IF AnyKeywordIn(PriceHighKeywords, prompt_lower)
        THEN [type |-> "price_high", description |-> "Premium flights first"]
      ELSE IF AnyKeywordIn(EarlyKeywords, prompt_lower)
        THEN [type |-> "time_early", description |-> "Early departure times first"]
      ELSE IF AnyKeywordIn(FastKeywords, prompt_lower)
        THEN [type |-> "duration_short", description |-> "Shortest flights first"]
      ELSE IF AnyKeywordIn(LateKeywords, prompt_lower)
        THEN [type |-> "time_late", description |-> "Later departure times first"]
      ELSE IF AnyKeywordIn(DirectKeywords, prompt_lower)
        THEN [type |-> "direct", description |-> "Direct flights first"]
      ELSE IF AnyKeywordIn(AirlineKeywords, prompt_lower)
        THEN [type |-> "airline", description |-> "Sorted by airline name"]
      ELSE [type |-> "price_low", description |-> "Cheapest flights first (default)"]

\* _detect_sorting_preference: the first keyword list with a keyword in the
\* lowercase request decides
_detect_sorting_preference(user_prompt) ==
  LET prompt_lower == Lower(user_prompt)
  IN  IF AnyKeywordIn(PriceLowKeywords, prompt_lower)
        THEN [type |-> "price_low", description |-> "Cheapest flights first"]
      ELSE IF AnyKeywordIn(PriceHighKeywords, prompt_lower)
        THEN [type |-> "price_high", description |-> "Premium flights first"]
      ELSE IF AnyKeywordIn(EarlyKeywords, prompt_lower)
        THEN [type |-> "time_early", description |-> "Early departure times first"]
      ELSE IF AnyKeywordIn(LateKeywords, prompt_lower)
        THEN [type |-> "time_late", description |-> "Later departure times first"]
      ELSE IF AnyKeywordIn(FastKeywords, prompt_lower)
        THEN [type |-> "duration_short", description |-> "Shortest flights first"]
      ELSE IF AnyKeywordIn(DirectKeywords, prompt_lower)
        THEN [type |-> "direct", description |-> "Direct flights first"]
      ELSE IF AnyKeywordIn(AirlineKeywords, prompt_lower)
        THEN [type |-> "airline", description |-> "Sorted by airline name"]
      ELSE [type |-> "price_low", description |-> "Cheapest flights first (default)"]

\* _extract_departure_time: HH:MM of the first segment's departure time
_extract_departure_time(offer) ==
  LET dept_time == offer.departure_time
      ts == {i \in 1..Len(dept_time) : dept_time[i] = "T"}
  IN  IF ts = {} THEN dept_time
      ELSE LET after == SubSeq(dept_time, SetMin(ts) + 1, Len(dept_time))
               more == {i \in 1..Len(after) : after[i] = "T"}
               part == IF more = {} THEN after ELSE SubSeq(after, 1, SetMin(more) - 1)
           IN  SubSeq(part, 1, IF Len(part) < 5 THEN Len(part) ELSE 5)

\* re.search(r'(\d+)<unit>', s): the leftmost run of digits that the unit
\* letter follows; <<>> when there is none
DigitsBefore(s, unit) ==
  LET ends == {i \in 2..Len(s) : s[i] = unit /\ IsDigit(s[i - 1])}
  IN  IF ends = {} THEN <<>>
      ELSE LET e == SetMin(ends)
               first == SetMin({j \in 1..(e - 1) : \A k \in j..(e - 1) : IsDigit(s[k])})
           IN  SubSeq(s, first, e - 1)

\* a parser that takes the minutes only
MinutesOnly(duration_str) ==
  LET minutes_match == DigitsBefore(duration_str, "m")
  IN  IF minutes_match = <<>> THEN 0 ELSE DecimalValue(minutes_match)

\* _parse_duration_minutes: "<H>h <M>m", a missing part counting 0
_parse_duration_minutes(duration_str) ==
  LET hours_match == DigitsBefore(duration_str, "h")
      minutes_match == DigitsBefore(duration_str, "m")
      hours == IF hours_match = <<>> THEN 0 ELSE DecimalValue(hours_match)
      minutes == IF minutes_match = <<>> THEN 0 ELSE DecimalValue(minutes_match)
  IN  hours * 60 + minutes

\* the sort keys of _sort_flights_by_preference, and their "<"
KeyLess(key, a, b) ==
  CASE key = "price" -> a.price < b.price
    [] key = "departure" ->
         StrLess(_extract_departure_time(a), _extract_departure_time(b))
    [] key = "duration" ->
         _parse_duration_minutes(a.total_duration)
           < _parse_duration_minutes(b.total_duration)
    [] key = "stops_price" ->
         \/ a.number_of_stops < b.number_of_stops
         \/ a.number_of_stops = b.number_of_stops /\ a.price < b.price
    [] key = "carrier" -> StrLess(Lower(a.carrier_names), Lower(b.carrier_names))

\* a sort that reverses the ascending result
RECURSIVE ReversedAscending(_, _, _)
ReversedAscending(offers, key, reverse) ==
  IF offers = <<>> THEN <<>>
  ELSE LET n == Len(offers)
           rest == ReversedAscending(SubSeq(offers, 1, n - 1), key, reverse)
           x == offers[n]
           k == IF reverse
                  THEN Cardinality({i \in 1..Len(rest) : KeyLess(key, x, rest[i])})
                  ELSE Cardinality({i \in 1..Len(rest) : ~KeyLess(key, x, rest[i])})
       IN  SubSeq(rest, 1, k) \o <<x>> \o SubSeq(rest, k + 1, Len(rest))

\* sorted(offers, key=..., reverse=...): Python's sort is stable, also with
\* reverse=True (equal keys keep the order of the input)
RECURSIVE sorted(_, _, _)
sorted(offers, key, reverse) ==
  IF offers = <<>> THEN <<>>
  ELSE LET n == Len(offers)
           rest == sorted(SubSeq(offers, 1, n - 1), key, reverse)
           x == offers[n]
           k == IF reverse
                  THEN Cardinality({i \in 1..Len(rest) : ~KeyLess(key, rest[i], x)})
                  ELSE Cardinality({i \in 1..Len(rest) : ~KeyLess(key, x, rest[i])})
       IN  SubSeq(rest, 1, k) \o <<x>> \o SubSeq(rest, k + 1, Len(rest))

\* a / b of two numbers, kept as a fraction; a zero denominator stands for
\* Python's ZeroDivisionError
Div(a, b) == [num |-> a, den |-> b]

ZeroDivision(q) == q.den = 0

\* a normalisation that divides also when all values are equal
NormalizeUnguarded(value, lo, hi) ==
  [num |-> Div(value - lo, hi - lo).num * 100, den |-> Div(value - lo, hi - lo).den]

\* "0 if max == min else ((value - min) / (max - min)) * 100" of
\* calculate_score
Normalize(value, lo, hi) ==
  IF hi = lo THEN [num |-> 0, den |-> 1]
  ELSE [num |-> Div(value - lo, hi - lo).num * 100, den |-> Div(value - lo, hi - lo).den]

\* min(offer.number_of_stops * 25, 100)
StopsScore(number_of_stops) ==
  IF number_of_stops * 25 < 100 THEN number_of_stops * 25 ELSE 100

\* a value normalised over the values of the list: min(values) and
\* max(values) are the bounds
NormalizeOver(value, values) == Normalize(value, SetMin(values), SetMax(values))

\* the three scores calculate_score computes for an offer of a list
ScoreParts(offer, offers) ==
  [price_score |->
     NormalizeOver(offer.price, {offers[i].price : i \in 1..Len(offers)}),
   duration_score |->
     NormalizeOver(_parse_duration_minutes(offer.total_duration),
                   {_parse_duration_minutes(offers[i].total_duration) : i \in 1..Len(offers)}),
   stops_score |-> StopsScore(offer.number_of_stops)]

\* one of the divisions of the scores raises ZeroDivisionError
PartsRaise(parts) ==
  ZeroDivision(parts.price_score) \/ ZeroDivision(parts.duration_score)

\* calculate_score raises ZeroDivisionError
ScoreRaises(offer, offers) == PartsRaise(ScoreParts(offer, offers))

\* 0.5 * price_score + 0.3 * duration_score + 0.2 * stops_score, times 10
\* and times the two denominators (the same for every offer of the list), so
\* that the scores of a list compare as integers
WeightedSum(parts) ==
  5 * parts.price_score.num * parts.duration_score.den
    + 3 * parts.duration_score.num * parts.price_score.den
    + 2 * parts.stops_score * parts.price_score.den * parts.duration_score.den

\* _sort_by_overall_score's calculate_score
calculate_score(offer, offers) == WeightedSum(ScoreParts(offer, offers))

\* _sort_by_overall_score: sorted(offers, key=calculate_score)
_sort_by_overall_score(offers) ==
  LET RECURSIVE ins(_)
      ins(n) ==
        IF n = 0 THEN <<>>
        ELSE LET rest == ins(n - 1)
                 x == offers[n]
                 k == Cardinality({i \in 1..Len(rest) :
                        ~(calculate_score(x, offers) < calculate_score(rest[i], offers))})
             IN  SubSeq(rest, 1, k) \o <<x>> \o SubSeq(rest, k + 1, Len(rest))
  IN  ins(Len(offers))

\* the branch of _sort_flights_by_preference for a detected type
SortByType(offers, type) ==
  CASE type = "price_low" -> sorted(offers, "price", FALSE)
    [] type = "price_high" -> sorted(offers, "price", TRUE)
    [] type = "time_early" -> sorted(offers, "departure", FALSE)
    [] type = "time_late" -> sorted(offers, "departure", TRUE)
    [] type = "duration_short" -> sorted(offers, "duration", FALSE)
    [] type = "duration_long" -> sorted(offers, "duration", TRUE)
    [] type = "direct" -> sorted(offers, "stops_price", FALSE)
    [] type = "airline" -> sorted(offers, "carrier", FALSE)
    [] type = "best_overall" -> _sort_by_overall_score(offers)
    [] OTHER -> sorted(offers, "price", FALSE)

\* _sort_flights_by_preference
_sort_flights_by_preference(offers, user_prompt) ==
  IF offers = <<>> THEN offers
  ELSE SortByType(offers, _detect_sorting_preference(user_prompt).type)

\* ------------------------------------------------------------------------
\* The state of a run
\* ------------------------------------------------------------------------
VARIABLES
  pc,               \* "main_input", the graph node to run next, or "done"
  state,            \* the BookingState dict threaded through the nodes
  started,          \* the nodes entered, in order (their "Executing ..." log lines)
  returned,         \* the nodes that returned, in order (the chunks graph.stream yields)
  prompt,           \* the input() call the interactive step is blocked in
  input_line,       \* the last line read from the console, and by which prompt
  local,            \* the local variables of the interactive step in progress
  raised,           \* the exception workflow.run delivered to main
  outcome,          \* what main printed when it ended
  sort_preference,  \* the preference _sort_flights_by_preference printed last
  settings,         \* the attributes of config.settings the steps read
  provider_log,     \* the searches sent to the flight-data provider, with its answers
  conversion_log    \* what the convert_currency call of the ticket step did

vars ==
  <<pc, state, started, returned, prompt, input_line, local, raised, outcome, sort_preference, settings, provider_log, conversion_log>>

\* ------------------------------------------------------------------------
\* Exceptions
\* ------------------------------------------------------------------------
NoException == [cls |-> "None", msg |-> "", at |-> "none"]

\* the classes an exception of class cls is an instance of
Mro(cls) ==
  CASE cls = "KeyboardInterrupt" -> {"KeyboardInterrupt", "BaseException"}
    [] cls = "SystemExit" -> {"SystemExit", "BaseException"}
    [] cls = "JSONDecodeError" ->
         {"JSONDecodeError", "ValueError", "Exception", "BaseException"}
    [] cls = "None" -> {}
    [] OTHER -> {cls, "Exception", "BaseException"}

isinstance(e, cls) == cls \in Mro(e.cls)

\* a cancellation raised as an ordinary error
CancelAsException(where) ==
  [cls |-> "RuntimeError", msg |-> "User cancelled the booking process", at |-> where]

\* raise KeyboardInterrupt("User cancelled ...") at a prompt
UserCancelled(where) ==
  [cls |-> "KeyboardInterrupt", msg |-> "User cancelled the booking process", at |-> where]

\* the words a prompt takes as a cancellation
CancelWords == {<<"c", "a", "n", "c", "e", "l">>, <<"e", "x", "i", "t">>, <<"q", "u", "i", "t">>}

CancelWordsWithQ == CancelWords \cup {<<"q">>}

\* ------------------------------------------------------------------------
\* dict operations on the shared state
\* ------------------------------------------------------------------------
Has(s, k) == k \in DOMAIN s

Put(s, k, v) == [x \in DOMAIN s \cup {k} |-> IF x = k THEN v ELSE s[x]]

Msg(text, arg) == [text |-> text, arg |-> arg]

\* state.setdefault("messages", []).append(m)
AddMessage(s, m) ==
  Put(s, "messages", Append(IF Has(s, "messages") THEN s["messages"] ELSE <<>>, m))

\* a handler that records every exception, cancellations too
ExceptBaseException(s, e) == Put(s, "error", e.msg)

\* a handler that starts a fresh state holding only the error
ExceptDiscarding(s, e) == [error |-> e.msg]

\* "except Exception as e: state['error'] = str(e); raise" of an agent's
\* execute and of its node wrapper
ExceptException(s, e) == IF isinstance(e, "Exception") THEN Put(s, "error", e.msg) ELSE s

\* the except clauses of main: KeyboardInterrupt, then Exception
MainExcept(e) ==
  IF isinstance(e, "KeyboardInterrupt") THEN "BOOKING CANCELLED"
  ELSE IF isinstance(e, "Exception") THEN "Error"
  ELSE "unhandled"

\* the graph of _build_graph: entry point and edges
EntryPoint == "search"

Nodes == {"search", "present", "get_selection", "book", "generate_ticket", "notify"}

\* edges that skip the presentation
EdgeSkippingPresent(node) ==
  CASE node = "search" -> "get_selection"
    [] node = "present" -> "get_selection"
    [] node = "get_selection" -> "book"
    [] node = "book" -> "generate_ticket"
    [] node = "generate_ticket" -> "notify"
    [] node = "notify" -> "END"

\* edges that skip the ticket
EdgeSkippingTicket(node) ==
  CASE node = "search" -> "present"
    [] node = "present" -> "get_selection"
    [] node = "get_selection" -> "book"
    [] node = "book" -> "notify"
    [] node = "generate_ticket" -> "notify"
    [] node = "notify" -> "END"

Edge(node) ==
  CASE node = "search" -> "present"
    [] node = "present" -> "get_selection"
    [] node = "get_selection" -> "book"
    [] node = "book" -> "generate_ticket"
    [] node = "generate_ticket" -> "notify"
    [] node = "notify" -> "END"

\* convert_currency was not called
NoConversion == [kind |-> "not called", num |-> 0, den |-> 1]

NoLocal == [step |-> "none"]

\* a node is entered: its wrapper logs and calls the agent
Enter(node) == started' = Append(started, node)

\* a wrapper that records the error without re-raising: the graph goes on
\* along the node's edge
RecordAndGoOn(e) ==
  /\ state' = ExceptException(state, e)
  /\ raised' = e
  /\ outcome' = outcome
  /\ pc' = IF Edge(e.at) = "END" THEN "done" ELSE Edge(e.at)
  /\ prompt' = "none"
  /\ local' = NoLocal
  /\ returned' = returned

\* an exception leaves the agent, the node wrapper, graph.stream and run
\* (whose except clauses re-raise it) and reaches main
Raise(e) ==
  /\ state' = ExceptException(state, e)
  /\ raised' = e
  /\ outcome' = MainExcept(e)
  /\ pc' = "done"
  /\ prompt' = "none"
  /\ local' = NoLocal
  /\ returned' = returned

\* a node returns new_state: the wrapper appends its message and the graph
\* moves along the node's edge; after the last node run returns and main
\* prints BOOKING COMPLETED
Return(node, new_state, message) ==
  /\ state' = AddMessage(new_state, message)
  /\ returned' = Append(returned, node)
  /\ pc' = IF Edge(node) = "END" THEN "done" ELSE Edge(node)
  /\ outcome' = IF Edge(node) = "END" THEN "BOOKING COMPLETED" ELSE outcome
  /\ prompt' = "none"
  /\ local' = NoLocal
  /\ raised' = raised

\* ------------------------------------------------------------------------
\* Flight offers, request texts and provider answers the model draws from
\* ------------------------------------------------------------------------
\* a FlightOffer: the fields the steps read; carrier_names is what
\* get_carrier_names() returns, departure_time that of segments[0]
Offer(id, price, currency, total_duration, number_of_stops, carrier_names, departure_time) ==
  [id |-> id, price |-> price, currency |-> currency,
   total_duration |-> total_duration, number_of_stops |-> number_of_stops,
   carrier_names |-> carrier_names, departure_time |-> departure_time]

F1 == Offer("F1", 500, "USD", <<"5", "h", " ", "0", "m">>, 1, <<"D", "e", "l", "t", "a">>, <<"2", "0", "2", "5", "-", "1", "1", "-", "2", "0", "T", "0", "9", ":", "3", "0", ":", "0", "0">>)

F2 == Offer("F2", 300, "EUR", <<"2", "h", " ", "3", "0", "m">>, 0, <<"U", "n", "i", "t", "e", "d">>, <<"2", "0", "2", "5", "-", "1", "1", "-", "2", "0", "T", "0", "6", ":", "1", "5", ":", "0", "0">>)

F3 == Offer("F3", 700, "USD", <<"3", "h", " ", "1", "5", "m">>, 2, <<"d", "e", "l", "t", "a">>, <<"2", "0", "2", "5", "-", "1", "1", "-", "2", "0", "T", "2", "1", ":", "4", "5", ":", "0", "0">>)

F4 == Offer("F4", 300, "USD", <<"5", "h", " ", "0", "m">>, 1, <<"E", "m", "i", "r", "a", "t", "e", "s">>, <<"2", "0", "2", "5", "-", "1", "1", "-", "2", "0", "T", "0", "9", ":", "3", "0", ":", "0", "0">>)

\* a duration _format_duration could not convert and returned as it came
F5 == Offer("F5", 500, "INR", <<"P", "1", "D", "T", "2", "H", "3", "0", "M">>, 0, <<"A", "I">>, <<"2", "0", "2", "5", "-", "1", "1", "-", "2", "0", "T", "1", "3", ":", "0", "0", ":", "0", "0">>)

\* offers of the adjacent dates
G1 == Offer("G1", 250, "USD", <<"2", "h", " ", "5", "m">>, 0, <<"Q", "a", "t", "a", "r">>, <<"2", "0", "2", "5", "-", "1", "1", "-", "1", "9", "T", "0", "7", ":", "0", "0", ":", "0", "0">>)

G2 == Offer("G2", 900, "USD", <<"2", "h", " ", "5", "m">>, 0, <<"Q", "a", "t", "a", "r">>, <<"2", "0", "2", "5", "-", "1", "1", "-", "2", "1", "T", "0", "7", ":", "0", "0", ":", "0", "0">>)

G3 == Offer("G3", 300, "USD", <<"2", "h", " ", "5", "m">>, 0, <<"Q", "a", "t", "a", "r">>, <<"2", "0", "2", "5", "-", "1", "1", "-", "1", "9", "T", "0", "9", ":", "0", "0", ":", "0", "0">>)

G4 == Offer("G4", 800, "USD", <<"2", "h", " ", "5", "m">>, 0, <<"Q", "a", "t", "a", "r">>, <<"2", "0", "2", "5", "-", "1", "1", "-", "1", "9", "T", "1", "1", ":", "0", "0", ":", "0", "0">>)

OfferPool == {F1, F2, F3, F4, F5}

\* the sequences of up to n distinct members of S
RECURSIVE SeqsUpTo(_, _)
SeqsUpTo(S, n) ==
  IF n = 0 THEN {<<>>}
  ELSE LET shorter == SeqsUpTo(S, n - 1)
       IN  shorter \cup
           {Append(p[1], p[2]) :
              p \in {t \in shorter \X S :
                       Len(t[1]) = n - 1 /\ \A i \in 1..Len(t[1]) : t[1][i] # t[2]}}

OfferLists == SeqsUpTo(OfferPool, MaxOffers)

\* fragments request texts are made of: a keyword of each category, some in
\* capitals, and a word that is no keyword
Fragments ==
  {<<"c", "h", "e", "a", "p", " ">>, <<"P", "r", "e", "m", "i", "u", "m", " ">>, <<"e", "a", "r", "l", "y", " ">>, <<"l", "a", "t", "e", " ">>, <<"F", "A", "S", "T", "E", "S", "T", " ">>, <<"f", "a", "s", "t", "e", "s", "t", " ">>,
   <<"d", "i", "r", "e", "c", "t", " ">>, <<"D", "e", "l", "t", "a", " ">>, <<"f", "l", "i", "g", "h", "t", " ">>}

RECURSIVE Flatten(_)
Flatten(q) == IF q = <<>> THEN <<>> ELSE Head(q) \o Flatten(Tail(q))

\* input(...).strip() of main for every text of up to MaxWords fragments
SortRequestTexts == {Strip(Flatten(q)) : q \in SeqsUpTo(Fragments, MaxWords)}

\* what the operator types at main's prompt in the workflow specifications
RequestTexts == {<<" ", "b", "o", "o", "k", " ", "a", " ", "f", "l", "i", "g", "h", "t", " ">>, <<"F", "A", "S", "T", "E", "S", "T", " ", "d", "i", "r", "e", "c", "t", " ", "f", "l", "i", "g", "h", "t">>, <<"C", "a", "n", "c", "e", "l">>, <<"q", "u", "i", "t", " ">>}

\* ------------------------------------------------------------------------
\* FlightSearchAgent and AmadeusClient.search_flights
\* ------------------------------------------------------------------------
\* date.fromisoformat: the day number of a YYYY-MM-DD string, -1 standing for
\* its ValueError
fromisoformat(s) ==
  IF /\ Len(s) = 10
     /\ s[5] = "-" /\ s[8] = "-"
     /\ IsDigits(SubSeq(s, 1, 4)) /\ IsDigits(SubSeq(s, 6, 7)) /\ IsDigits(SubSeq(s, 9, 10))
     /\ DecimalValue(SubSeq(s, 6, 7)) \in 1..12
     /\ DecimalValue(SubSeq(s, 9, 10)) \in 1..28
  THEN (DecimalValue(SubSeq(s, 1, 4)) * 12 + DecimalValue(SubSeq(s, 6, 7)) - 1) * 28
         + DecimalValue(SubSeq(s, 9, 10))
  ELSE -1

\* ParsedFlightRequest as _parse_user_request returns it
ParsedRequest(departure_date, adults) ==
  [origin_city |-> "Delhi", origin_code |-> "DEL",
   destination_city |-> "Mumbai", destination_code |-> "BOM",
   departure_date |-> departure_date, departure_time |-> "None",
   adults |-> adults, travel_class |-> "ECONOMY"]

\* what _parse_user_request does in a run of the workflow: it returns a
\* parsed request, or one of its failures leaves it
ParseOutcomes ==
  {[kind |-> "return", parsed |-> ParsedRequest(<<"2", "0", "2", "5", "-", "1", "1", "-", "2", "0">>, n)] : n \in 1..MaxAdults}
  \cup {[kind |-> "return", parsed |-> ParsedRequest(<<"2", "0", " ", "N", "o", "v">>, 1)]}
  \cup {[kind |-> "raise", exc |-> [cls |-> c, msg |-> m, at |-> "search"]] :
          <<c, m>> \in {<<"OpenAIError", "Connection error.">>,
                        <<"ValueError", "Could not parse flight request.">>,
                        <<"JSONDecodeError", "Could not extract valid JSON">>,
                        <<"Exception", "Failed to parse user request after maximum iterations">>}}

\* _create_search_request
_create_search_request(parsed) ==
  [origin |-> parsed.origin_code, destination |-> parsed.destination_code,
   departure_date |-> fromisoformat(parsed.departure_date),
   departure_time |-> "None", adults |-> parsed.adults,
   travel_class |-> parsed.travel_class, max_results |-> 10]

ResponseError == [kind |-> "ResponseError", data |-> <<>>]

Data(offers) == [kind |-> "data", data |-> offers]

\* what the provider answers to a search of the requested date and of an
\* adjacent date in the workflow specifications
RequestedDateAnswers == {ResponseError, Data(<<>>), Data(<<F1, F2>>), Data(<<F3, F1, F4>>)}

AdjacentDateAnswers == {ResponseError, Data(<<G1>>), Data(<<G2>>)}

\* _search_flights_for_date: the offers of the provider's answer, none on a
\* ResponseError
_search_flights_for_date(answer) ==
  IF answer.kind = "ResponseError" THEN <<>> ELSE answer.data

\* min(offer.price for offer in offers)
MinPrice(offers) == SetMin({offers[i].price : i \in 1..Len(offers)})

\* an adjacent date recorded also when it is as cheap as the requested one
AlternativeForNotDearer(alternative_date, alt_offers, min_original_price) ==
  IF alt_offers # <<>> /\ MinPrice(alt_offers) <= min_original_price
  THEN <<[departure_date |-> alternative_date,
          offers |-> SubSeq(alt_offers, 1, IF Len(alt_offers) < 3 THEN Len(alt_offers) ELSE 3),
          price_difference |-> MinPrice(alt_offers) - min_original_price]>>
  ELSE <<>>

\* the AlternativeDateOffer of one adjacent date, <<>> when none is recorded
AlternativeFor(alternative_date, alt_offers, min_original_price) ==
  IF alt_offers # <<>> /\ MinPrice(alt_offers) < min_original_price
  THEN <<[departure_date |-> alternative_date,
          offers |-> SubSeq(alt_offers, 1, IF Len(alt_offers) < 3 THEN Len(alt_offers) ELSE 3),
          price_difference |-> MinPrice(alt_offers) - min_original_price]>>
  ELSE <<>>

\* the day after searched before the day before
DayOffsetsReversed == <<1, -1>>

\* "for day_offset in [-1, 1]" of _search_alternative_dates
DayOffsets == <<-1, 1>>

\* _search_alternative_dates: the adjacent dates in the order of DayOffsets
_search_alternative_dates(request, original_offers, provider) ==
  LET min_original_price == MinPrice(original_offers)
      RECURSIVE loop(_)
      loop(i) ==
        IF i > Len(DayOffsets) THEN <<>>
        ELSE AlternativeFor(request.departure_date + DayOffsets[i],
                            _search_flights_for_date(provider[DayOffsets[i]]),
                            min_original_price)
             \o loop(i + 1)
  IN  IF original_offers = <<>> THEN <<>> ELSE loop(1)

\* the calls of flight_offers_search.get that search_flights makes: the
\* requested date, then, unless it has no offers, each adjacent date
SearchTrace(request, provider) ==
  <<[date |-> request.departure_date, answer |-> provider[0]]>>
  \o (IF _search_flights_for_date(provider[0]) = <<>> THEN <<>>
      ELSE [i \in 1..Len(DayOffsets) |->
              [date |-> request.departure_date + DayOffsets[i],
               answer |-> provider[DayOffsets[i]]]])

\* search_flights: provider[d] is the provider's answer for the date d days
\* from the requested one
search_flights(request, provider) ==
  LET original_offers == _search_flights_for_date(provider[0])
  IN  [original_date_offers |-> original_offers,
       alternative_offers |-> _search_alternative_dates(request, original_offers, provider)]

\* the answers the provider may give for dates up to two days from the
\* requested one
ProvidersOver(requested, adjacent) ==
  {[d \in -2..2 |-> IF d = 0 THEN r0 ELSE IF d = -1 THEN rb ELSE IF d = 1 THEN ra
                    ELSE Data(<<G1>>)] :
     r0 \in requested, rb \in adjacent, ra \in adjacent}

Providers == ProvidersOver(RequestedDateAnswers, AdjacentDateAnswers)

\* ------------------------------------------------------------------------
\* main and the nodes of the graph
\* ------------------------------------------------------------------------
\* main reads the request; a cancel word ends it before the workflow runs,
\* anything else starts workflow.run with the initial state
MainReadRequest ==
  /\ pc = "main_input"
  /\ \E text \in RequestTexts :
       LET user_prompt == Strip(text)
       IN  /\ input_line' = [prompt |-> "request", text |-> text]
           /\ IF Lower(user_prompt) \in CancelWords
                THEN /\ pc' = "done"
                     /\ outcome' = "Goodbye"
                     /\ state' = state
                ELSE /\ pc' = EntryPoint
                     /\ outcome' = outcome
                     /\ state' = [user_prompt |-> user_prompt,
                                  messages |-> <<Msg("Workflow started", 0)>>]
  /\ UNCHANGED <<started, returned, prompt, local, raised, sort_preference, settings, provider_log, conversion_log>>

\* step 4 of FlightSearchAgent.execute: the keys it writes
SearchResult(s, parsed_request, search_request, flight_results) ==
  Put(Put(Put(Put(s, "parsed_request", parsed_request),
              "flight_results", flight_results),
          "search_request", search_request),
      "user_prompt", s["user_prompt"])

\* FlightSearchAgent.execute under _search_node, with the provider answering
\* as one of providers
SearchStep(providers) ==
  /\ pc = "search"
  /\ Enter("search")
  /\ \E llm \in ParseOutcomes, provider \in providers :
       IF llm.kind = "raise" THEN Raise(llm.exc) /\ provider_log' = provider_log
       ELSE LET parsed_request == llm.parsed
                search_request == _create_search_request(parsed_request)
                flight_results == search_flights(search_request, provider)
            IN  IF search_request.departure_date = -1
                THEN /\ Raise([cls |-> "ValueError", msg |-> "Invalid isoformat string",
                               at |-> "search"])
                     /\ provider_log' = provider_log
                ELSE /\ Return("search",
                               SearchResult(state, parsed_request, search_request,
                                            flight_results),
                               Msg("Flight search completed", 0))
                     /\ provider_log' = SearchTrace(search_request, provider)
  /\ UNCHANGED <<input_line, sort_preference, settings, conversion_log>>

SearchNode == SearchStep(Providers)

\* FlightPresentationAgent.execute under _present_node: the offers of the
\* requested date are sorted in a copy of the results and printed; only the
\* printed text is stored
PresentNode ==
  /\ pc = "present"
  /\ Enter("present")
  /\ LET flight_results == state["flight_results"]
         sorted_offers ==
           _sort_flights_by_preference(flight_results.original_date_offers,
                                       state["user_prompt"])
         presentation == [rows |-> sorted_offers,
                          alternatives |-> flight_results.alternative_offers]
     IN  /\ Return("present", Put(state, "presentation", presentation),
                   Msg("Flight options presented", 0))
         /\ sort_preference' =
              IF flight_results.original_date_offers = <<>> THEN sort_preference
              ELSE _detect_sorting_preference(state["user_prompt"])
  /\ UNCHANGED <<input_line, settings, provider_log, conversion_log>>

\* ------------------------------------------------------------------------
\* The interactive steps: get_user_selection and _collect_passenger_info
\* ------------------------------------------------------------------------
\* every console read records the line and its prompt
Read(site, text) == input_line' = [prompt |-> site, text |-> text]

\* what the operator may type at the selection prompt and at the
\* confirmation prompt
SelectionInputs ==
  {<<"1">>, <<" ", "2", " ">>, <<"3">>, <<"0">>, <<"4">>, <<"-", "1">>, <<"+", "1">>, <<"t", "w", "o">>, <<>>, <<"1", ".", "5">>,
   <<"i", "n", "f", "o", " ", "1">>, <<"I", "N", "F", "O", " ", "2">>, <<"i", "n", "f", "o", " ", "9">>, <<"i", "n", "f", "o", " ", "x">>, <<"i", "n", "f", "o">>, <<"i", "n", "f", "o", " ", " ", "3", " ", "n", "o", "w">>,
   <<"c", "a", "n", "c", "e", "l">>, <<"E", "x", "i", "t">>, <<"q", "u", "i", "t">>, <<"q">>}

ConfirmInputs == {<<>>, <<"y">>, <<"Y", "e", "s">>, <<" ", "Y", " ">>, <<"n">>, <<"n", "o">>, <<"m", "a", "y", "b", "e">>, <<"q">>, <<"c", "a", "n", "c", "e", "l">>, <<"E", "X", "I", "T">>, <<"q", "u", "i", "t">>}

\* a selection loop without its "except ValueError" clause
SelectionLoopNoExcept(e) == Raise(e)

\* an exception raised inside the try of the selection loop: its
\* "except ValueError" prints a hint and the loop goes on; any other
\* exception leaves get_user_selection
SelectionLoopExcept(e) ==
  IF isinstance(e, "ValueError")
  THEN /\ prompt' = "selection"
       /\ UNCHANGED <<pc, state, returned, local, raised, outcome>>
  ELSE Raise(e)

\* a selection that prompts whatever the number of offers
AlwaysSomethingToSelect(total_options) == FALSE

\* "if total_options == 0" of get_user_selection
NothingToSelect(total_options) == total_options = 0

\* _selection_node calls get_user_selection: no offers is a ValueError
\* before any prompt, else the loop's first prompt is shown
SelectionNode ==
  /\ pc = "get_selection" /\ prompt = "none"
  /\ Enter("get_selection")
  /\ LET total_options == Len(state["flight_results"].original_date_offers)
     IN  IF NothingToSelect(total_options)
         THEN Raise([cls |-> "ValueError", msg |-> "No flights available for selection",
                     at |-> "get_selection"])
         ELSE /\ prompt' = "selection"
              /\ local' = [step |-> "get_selection", total_options |-> total_options]
              /\ UNCHANGED <<pc, state, returned, raised, outcome>>
  /\ UNCHANGED <<input_line, sort_preference, settings, provider_log, conversion_log>>

\* one pass of the loop up to the selection prompt's answer
SelectionInput ==
  /\ pc = "get_selection" /\ prompt = "selection"
  /\ \E text \in SelectionInputs :
       LET selection == Lower(Strip(text))
           total_options == local.total_options
           offers == state["flight_results"].original_date_offers
       IN  /\ Read("selection", text)
           /\ IF selection \in CancelWordsWithQ
                THEN SelectionLoopExcept(UserCancelled("get_selection"))
              ELSE IF StartsWith(selection, <<"i", "n", "f", "o", " ">>)
                THEN \* details are printed, or a hint: the loop goes on
                     /\ prompt' = "selection"
                     /\ UNCHANGED <<pc, state, returned, local, raised, outcome>>
              ELSE IF ~IsIntLiteral(selection)
                THEN SelectionLoopExcept([cls |-> "ValueError",
                                          msg |-> "invalid literal for int()",
                                          at |-> "get_selection"])
              ELSE IF 1 <= IntOf(selection) /\ IntOf(selection) <= total_options
                THEN /\ state' = Put(Put(state, "selected_offer", offers[IntOf(selection)]),
                                     "selection_number", IntOf(selection))
                     /\ prompt' = "confirm"
                     /\ UNCHANGED <<pc, returned, local, raised, outcome>>
              ELSE /\ prompt' = "selection"
                   /\ UNCHANGED <<pc, state, returned, local, raised, outcome>>
  /\ UNCHANGED <<started, sort_preference, settings, provider_log, conversion_log>>

\* the answer to "Confirm this selection?": yes or blank leaves the loop
\* and the node returns, a cancel word raises, anything else asks again
ConfirmInput ==
  /\ pc = "get_selection" /\ prompt = "confirm"
  /\ \E text \in ConfirmInputs :
       LET confirm == Lower(Strip(text))
       IN  /\ Read("confirm", text)
           /\ IF confirm \in {<<>>, <<"y">>, <<"y", "e", "s">>}
                THEN Return("get_selection", state,
                            Msg("User selected option", state["selection_number"]))
              ELSE IF confirm \in CancelWords
                THEN SelectionLoopExcept(UserCancelled("get_selection"))
              ELSE /\ prompt' = "selection"
                   /\ UNCHANGED <<pc, state, returned, local, raised, outcome>>
  /\ UNCHANGED <<started, sort_preference, settings, provider_log, conversion_log>>

\* s or default
OrDefault(s, default) == IF s = <<>> THEN default ELSE s

\* what the operator may type at each passenger prompt: every prompt is
\* offered blank, data and the cancel word
WideInputs(site) ==
  CASE site = "first_name" -> {<<>>, <<" ", "A", "n", "n", " ">>, <<"c", "a", "n", "c", "e", "l">>, <<"E", "X", "I", "T">>, <<"q", "u", "i", "t">>}
    [] site = "last_name" -> {<<>>, <<"c", "a", "n", "c", "e", "l">>}
    [] site = "gender" -> {<<>>, <<"f">>, <<"c", "a", "n", "c", "e", "l">>}
    [] site = "email" -> {<<>>, <<"c", "a", "n", "c", "e", "l">>}
    [] site = "phone" -> {<<>>, <<"c", "a", "n", "c", "e", "l">>}
    [] site = "id_choice" -> {<<>>, <<"2">>, <<"3">>, <<"9">>, <<"c", "a", "n", "c", "e", "l">>}
    [] site = "aadhaar" ->
         {<<>>, <<"1", "2", "3", "4", "5", "6", "7", "8", "9", "0", "1", "2">>, <<"1", "2", "3", "4", "-", "5", "6", "7", "8", "-", "9", "0", "1", "2">>, <<" ", "1", "2", "3", "4", " ", "5", "6", "7", "8", " ", "9", "0", "1", "2">>, <<"1", "2", "3", "4", "5">>,
          <<"1", "2", "3", "4", "5", "6", "7", "8", "9", "0", "1", "a">>, <<"c", "a", "n", "c", "e", "l">>, <<"1", "2", "3", "4", "5", "6", "7", "8", "9", "0", "1", "2", "3">>, <<"-", " ", "-">>, <<"9", "8", "7", "6", "-", "5", "4", "3", "2", "1", "0", "9", "8">>}
    [] site = "id_number" -> {<<>>, <<"c", "a", "n", "c", "e", "l">>}

\* the inputs of the workflow specifications: the passenger data is left at
\* its defaults
NarrowInputs(site) ==
  CASE site = "first_name" -> {<<>>, <<"C", "a", "n", "c", "e", "l">>, <<"e", "x", "i", "t">>}
    [] site = "id_choice" -> {<<>>, <<"2">>}
    [] site = "aadhaar" -> {<<>>, <<"1", "2", "3", "4", "5">>}
    [] OTHER -> {<<>>}

\* the lines a specification gives a passenger prompt
Inputs(width, site) == IF width = "wide" THEN WideInputs(site) ELSE NarrowInputs(site)

\* the cancel test of the first-name prompt
FirstNameCancels(first_name) == Lower(first_name) \in CancelWords

\* AmadeusClient.book_flight: the simulated confirmation
book_flight(booking_request) ==
  [booking_reference |-> "PNR", status |-> "CONFIRMED", total_price |-> 0,
   currency |-> "USD", flight_offer |-> [id |-> "None"],
   passengers |-> booking_request.passengers, booking_date |-> "now"]

\* a booking step that stores the provider's confirmation as it came
CompleteBookingAsReturned(passengers) ==
  Return("book",
         Put(Put(state, "booking_confirmation",
                 book_flight([offer_id |-> state["selected_offer"].id,
                              passengers |-> passengers])),
             "passengers", passengers),
         Msg("Booking completed", 0))

\* the rest of BookingAgent.execute once the passengers are collected: the
\* selected offer is booked, the confirmation takes its offer, price and
\* currency, both are stored and the node returns
CompleteBooking(passengers) ==
  LET selected_offer == state["selected_offer"]
      booking_request == [offer_id |-> selected_offer.id, passengers |-> passengers]
      booking_confirmation ==
        [book_flight(booking_request) EXCEPT
           !.flight_offer = selected_offer,
           !.total_price = selected_offer.price,
           !.currency = selected_offer.currency]
  IN  Return("book",
             Put(Put(state, "booking_confirmation", booking_confirmation),
                 "passengers", passengers),
             Msg("Booking completed", 0))

\* _booking_node calls BookingAgent.execute, which starts
\* _collect_passenger_info: one round of prompts for each adult
BookingNode ==
  /\ pc = "book" /\ prompt = "none"
  /\ Enter("book")
  /\ LET adults == IF Has(state, "parsed_request") THEN state["parsed_request"].adults ELSE 1
     IN  IF adults >= 1
         THEN /\ prompt' = "first_name"
              /\ local' = [step |-> "book", adults |-> adults, passengers |-> <<>>,
                           passenger |-> [first_name |-> <<>>]]
              /\ UNCHANGED <<pc, state, returned, raised, outcome>>
         ELSE CompleteBooking(<<>>)
  /\ UNCHANGED <<input_line, sort_preference, settings, provider_log, conversion_log>>

\* a passenger prompt is answered and the next one is shown
NextField(site, next_site, value) ==
  /\ prompt' = next_site
  /\ local' = [local EXCEPT !.passenger =
                 [k \in DOMAIN local.passenger \cup {site} |->
                    IF k = site THEN value ELSE local.passenger[k]]]
  /\ UNCHANGED <<pc, state, returned, raised, outcome>>

FirstNameInput(width) ==
  /\ pc = "book" /\ prompt = "first_name"
  /\ \E text \in Inputs(width, "first_name") :
       LET first_name == Strip(text)
       IN  /\ Read("first_name", text)
           /\ IF FirstNameCancels(first_name)
                THEN Raise(UserCancelled("book"))
                ELSE /\ prompt' = "last_name"
                     /\ local' = [local EXCEPT
                                    !.passenger = [first_name |-> OrDefault(first_name, <<"J", "o", "h", "n">>)]]
                     /\ UNCHANGED <<pc, state, returned, raised, outcome>>
  /\ UNCHANGED <<started, sort_preference, settings, provider_log, conversion_log>>

LastNameInput(width) ==
  /\ pc = "book" /\ prompt = "last_name"
  /\ \E text \in Inputs(width, "last_name") :
       /\ Read("last_name", text)
       /\ NextField("last_name", "gender", OrDefault(Strip(text), <<"D", "o", "e">>))
  /\ UNCHANGED <<started, sort_preference, settings, provider_log, conversion_log>>

GenderInput(width) ==
  /\ pc = "book" /\ prompt = "gender"
  /\ \E text \in Inputs(width, "gender") :
       /\ Read("gender", text)
       /\ NextField("gender", "email", OrDefault(Upper(Strip(text)), <<"M">>))
  /\ UNCHANGED <<started, sort_preference, settings, provider_log, conversion_log>>

EmailInput(width) ==
  /\ pc = "book" /\ prompt = "email"
  /\ \E text \in Inputs(width, "email") :
       /\ Read("email", text)
       /\ NextField("email", "phone", OrDefault(Strip(text), <<"j", "o", "h", "n", ".", "d", "o", "e", "@", "e", "x", "a", "m", "p", "l", "e", ".", "c", "o", "m">>))
  /\ UNCHANGED <<started, sort_preference, settings, provider_log, conversion_log>>

PhoneInput(width) ==
  /\ pc = "book" /\ prompt = "phone"
  /\ \E text \in Inputs(width, "phone") :
       /\ Read("phone", text)
       /\ NextField("phone", "id_choice", OrDefault(Strip(text), <<"+", "9", "1", "-", "1", "2", "3", "4", "5", "6", "7", "8", "9", "0">>))
  /\ UNCHANGED <<started, sort_preference, settings, provider_log, conversion_log>>

\* id_type_map.get(id_choice, "AADHAAR")
IdType(id_choice) ==
  CASE id_choice = <<"1">> -> "AADHAAR"
    [] id_choice = <<"2">> -> "PASSPORT"
    [] id_choice = <<"3">> -> "DRIVING_LICENSE"
    [] OTHER -> "AADHAAR"

IdChoiceInput(width) ==
  /\ pc = "book" /\ prompt = "id_choice"
  /\ \E text \in Inputs(width, "id_choice") :
       LET id_type == IdType(OrDefault(Strip(text), <<"1">>))
       IN  /\ Read("id_choice", text)
           /\ NextField("id_type", IF id_type = "AADHAAR" THEN "aadhaar" ELSE "id_number",
                             id_type)
  /\ UNCHANGED <<started, sort_preference, settings, provider_log, conversion_log>>

\* the PassengerInfo built from the answers
PassengerInfo(p, id_number) ==
  [first_name |-> p.first_name, last_name |-> p.last_name,
   gender |-> IF p.gender \in {<<"M">>, <<"F">>} THEN p.gender ELSE <<"M">>,
   email |-> p.email, phone |-> p.phone,
   id_type |-> p.id_type, id_number |-> id_number]

\* the ID number of a passenger is known: the passenger is appended and the
\* next adult is asked, or, after the last, the booking is completed
PassengerDone(id_number) ==
  LET passengers == Append(local.passengers, PassengerInfo(local.passenger, id_number))
  IN  IF Len(passengers) < local.adults
      THEN /\ prompt' = "first_name"
           /\ local' = [local EXCEPT !.passengers = passengers,
                                     !.passenger = [first_name |-> <<>>]]
           /\ UNCHANGED <<pc, state, returned, raised, outcome>>
      ELSE CompleteBooking(passengers)

\* the 12 digits returned as they were typed
FormatAadhaarUngrouped(aadhaar_digits) == aadhaar_digits

\* the 12-digit number re-rendered in groups of four
FormatAadhaar(aadhaar_digits) ==
  SubSeq(aadhaar_digits, 1, 4) \o <<"-">> \o SubSeq(aadhaar_digits, 5, 8) \o <<"-">>
    \o SubSeq(aadhaar_digits, 9, Len(aadhaar_digits))

\* one pass of the loop of _get_aadhaar_number
AadhaarInput(width) ==
  /\ pc = "book" /\ prompt = "aadhaar"
  /\ \E text \in Inputs(width, "aadhaar") :
       LET aadhaar == Strip(text)
           aadhaar_digits == RemoveChar(RemoveChar(aadhaar, "-"), " ")
       IN  /\ Read("aadhaar", text)
           /\ IF aadhaar = <<>> THEN PassengerDone(<<"1", "2", "3", "4", "-", "5", "6", "7", "8", "-", "9", "0", "1", "2">>)
              ELSE IF Len(aadhaar_digits) = 12 /\ IsDigits(aadhaar_digits)
                THEN PassengerDone(FormatAadhaar(aadhaar_digits))
              ELSE /\ prompt' = "aadhaar"
                   /\ UNCHANGED <<pc, state, returned, local, raised, outcome>>
  /\ UNCHANGED <<started, sort_preference, settings, provider_log, conversion_log>>

IdNumberInput(width) ==
  /\ pc = "book" /\ prompt = "id_number"
  /\ \E text \in Inputs(width, "id_number") :
       /\ Read("id_number", text)
       /\ PassengerDone(OrDefault(Strip(text), <<"D", "E", "F", "A", "U", "L", "T", "1", "2", "3", "4", "5", "6">>))
  /\ UNCHANGED <<started, sort_preference, settings, provider_log, conversion_log>>

\* ------------------------------------------------------------------------
\* TicketGenerationAgent and NotificationAgent
\* ------------------------------------------------------------------------
\* config.Settings: the attributes the ticket step reads that the class
\* declares, local_currency and enable_currency_conversion being set from
\* the environment; it declares no gst_rate
DeployedSettings ==
  {[local_currency |-> "USD", enable_currency_conversion |-> TRUE],
   [local_currency |-> "INR", enable_currency_conversion |-> TRUE],
   [local_currency |-> "INR", enable_currency_conversion |-> FALSE]}

\* a Settings class that also declares the gst_rate the ticket step reads
SettingsWithGstRate ==
  {[x \in DOMAIN s \cup {"gst_rate"} |-> IF x = "gst_rate" THEN 10 ELSE s[x]] :
     s \in DeployedSettings}

\* round(a / b) to the nearest integer, ties to even, for a >= 0 and b > 0
RoundDiv(a, b) ==
  LET q == a \div b
      r == a % b
  IN  IF 2 * r < b THEN q
      ELSE IF 2 * r > b THEN q + 1
      ELSE IF q % 2 = 0 THEN q ELSE q + 1

\* what the exchange-rate lookup of convert_currency may give: a rate (as a
\* fraction) or none, which is its ValueError
ConversionOutcomes ==
  {[kind |-> "rate", num |-> 83, den |-> 1],
   [kind |-> "rate", num |-> 11, den |-> 10],
   [kind |-> "error", num |-> 0, den |-> 1]}

\* what an LLM call of the ticket and notify steps may do
LlmOutcomes == {"ok", "OpenAIError"}

\* the condition under which _prepare_ticket_data calls convert_currency
ConversionWanted(booking, config) ==
  config.enable_currency_conversion /\ config.local_currency # booking.currency

\* a breakdown that labels the price with the local currency before the
\* conversion is tried
PriceBreakdownRelabelled(booking, conversion, config) ==
  LET convert == ConversionWanted(booking, config) /\ conversion.kind = "rate"
      display_price ==
        IF convert
        THEN RoundDiv(booking.total_price * 100 * conversion.num, conversion.den)
        ELSE booking.total_price * 100
      display_currency ==
        IF ConversionWanted(booking, config) THEN config.local_currency ELSE booking.currency
      gst_amount == RoundDiv(display_price * config.gst_rate, 100)
  IN  [base_fare |-> display_price, currency |-> display_currency,
       gst_rate |-> config.gst_rate, gst_amount |-> gst_amount,
       total_price |-> display_price + gst_amount]

\* the price lines of _prepare_ticket_data, in hundredths: the booked price,
\* converted when conversion is enabled, differs in currency and succeeds;
\* the surcharge and the total
PriceBreakdown(booking, conversion, config) ==
  LET convert == ConversionWanted(booking, config) /\ conversion.kind = "rate"
      display_price ==
        IF convert
        THEN RoundDiv(booking.total_price * 100 * conversion.num, conversion.den)
        ELSE booking.total_price * 100
      display_currency == IF convert THEN config.local_currency ELSE booking.currency
      gst_amount == RoundDiv(display_price * config.gst_rate, 100)
  IN  [base_fare |-> display_price, currency |-> display_currency,
       gst_rate |-> config.gst_rate, gst_amount |-> gst_amount,
       total_price |-> display_price + gst_amount]

\* a ticket step that also stores the displayed price and currency in the
\* booking confirmation
TicketResultRepriced(s, booking, prices) ==
  Put(Put(s, "formatted_ticket",
          [booking_reference |-> booking.booking_reference, prices |-> prices]),
      "booking_confirmation",
      [booking EXCEPT !.currency = prices.currency])

\* TicketGenerationAgent.execute stores the ticket made from a validated
\* copy of the booking confirmation
TicketResult(s, booking, prices) ==
  Put(s, "formatted_ticket",
      [booking_reference |-> booking.booking_reference, prices |-> prices])

\* TicketGenerationAgent.execute under _ticket_generation_node:
\* _prepare_ticket_data converts the price when wanted, then reads
\* settings.gst_rate, an AttributeError when Settings has no such attribute;
\* then the LLM renders the ticket
TicketNode ==
  /\ pc = "generate_ticket"
  /\ Enter("generate_ticket")
  /\ \E conversion \in ConversionOutcomes, llm \in LlmOutcomes :
       LET booking == state["booking_confirmation"]
       IN  /\ conversion_log' =
                IF ConversionWanted(booking, settings) THEN conversion ELSE NoConversion
           /\ IF "gst_rate" \notin DOMAIN settings
              THEN Raise([cls |-> "AttributeError",
                          msg |-> "'Settings' object has no attribute 'gst_rate'",
                          at |-> "generate_ticket"])
              ELSE IF llm = "OpenAIError"
              THEN Raise([cls |-> "OpenAIError", msg |-> "Connection error.",
                          at |-> "generate_ticket"])
              ELSE Return("generate_ticket",
                          TicketResult(state, booking,
                                       PriceBreakdown(booking, conversion, settings)),
                          Msg("Ticket generated", 0))
  /\ UNCHANGED <<input_line, sort_preference, settings, provider_log>>

\* NotificationAgent.execute under _notification_node: the ticket and an
\* LLM-written message are displayed, then the run is marked complete
NotifyNode ==
  /\ pc = "notify"
  /\ Enter("notify")
  /\ \E llm \in LlmOutcomes :
       IF llm = "OpenAIError"
       THEN Raise([cls |-> "OpenAIError", msg |-> "Connection error.", at |-> "notify"])
       ELSE Return("notify",
                   Put(Put(state, "workflow_complete", TRUE), "completion_time", "now"),
                   Msg("Notification sent", 0))
  /\ UNCHANGED <<input_line, sort_preference, settings, provider_log, conversion_log>>

\* ------------------------------------------------------------------------
\* Specifications
\* ------------------------------------------------------------------------
EmptyState == [k \in {} |-> 0]

NoInput == [prompt |-> "none", text |-> <<>>]

NoPreference == [type |-> "none", description |-> "none"]

\* main has built the BookingWorkflow and is about to read the request
InitWith(configs) ==
  /\ pc = "main_input"
  /\ state = EmptyState
  /\ started = <<>>
  /\ returned = <<>>
  /\ prompt = "none"
  /\ input_line = NoInput
  /\ local = NoLocal
  /\ raised = NoException
  /\ outcome = "none"
  /\ sort_preference = NoPreference
  /\ settings \in configs
  /\ provider_log = <<>>
  /\ conversion_log = NoConversion

Init == InitWith(DeployedSettings)

\* the steps of a run with the Settings of config.py, under which the
\* ticket step always raises and the notify node is never entered
Next ==
  \/ MainReadRequest
  \/ SearchNode
  \/ PresentNode
  \/ SelectionNode
  \/ SelectionInput
  \/ ConfirmInput
  \/ BookingNode
  \/ FirstNameInput("narrow")
  \/ LastNameInput("narrow")
  \/ GenderInput("narrow")
  \/ EmailInput("narrow")
  \/ PhoneInput("narrow")
  \/ IdChoiceInput("narrow")
  \/ AadhaarInput("narrow")
  \/ IdNumberInput("narrow")
  \/ TicketNode

Spec == Init /\ [][Next]_vars

\* the same run, also for a Settings that declares gst_rate: all six nodes
\* can run
InitGst == InitWith(DeployedSettings \cup SettingsWithGstRate)

NextGst == Next \/ NotifyNode

SpecGst == InitGst /\ [][NextGst]_vars

\* the run has got past the search: the state _search_node returned
AfterSearch(user_prompt, adults, original_date_offers) ==
  AddMessage(
    SearchResult([user_prompt |-> user_prompt, messages |-> <<Msg("Workflow started", 0)>>],
                 ParsedRequest(<<"2", "0", "2", "5", "-", "1", "1", "-", "2", "0">>, adults),
                 _create_search_request(ParsedRequest(<<"2", "0", "2", "5", "-", "1", "1", "-", "2", "0">>, adults)),
                 [original_date_offers |-> original_date_offers,
                  alternative_offers |-> <<>>]),
    Msg("Flight search completed", 0))

\* the present step on every request text and offer list of the bounds
InitSort ==
  /\ pc = "present"
  /\ \E text \in SortRequestTexts, offers \in OfferLists :
       /\ state = AfterSearch(text, 1, offers)
       /\ input_line = [prompt |-> "request", text |-> text]
  /\ started = <<"search">>
  /\ returned = <<"search">>
  /\ prompt = "none"
  /\ local = NoLocal
  /\ raised = NoException
  /\ outcome = "none"
  /\ sort_preference = NoPreference
  /\ settings \in {[local_currency |-> "USD", enable_currency_conversion |-> TRUE]}
  /\ provider_log = <<>>
  /\ conversion_log = NoConversion

NextSort == PresentNode

SpecSort == InitSort /\ [][NextSort]_vars

\* the state _selection_node returned after the operator confirmed row n
AfterSelection(user_prompt, adults, offers, n) ==
  LET s == AfterSearch(user_prompt, adults, offers)
      presented ==
        AddMessage(Put(s, "presentation",
                       [rows |-> _sort_flights_by_preference(offers, user_prompt),
                        alternatives |-> <<>>]),
                   Msg("Flight options presented", 0))
  IN  AddMessage(Put(Put(presented, "selected_offer", offers[n]), "selection_number", n),
                 Msg("User selected option", n))

\* the booking step with every passenger prompt given its full set of inputs
InitBooking ==
  /\ pc = "book"
  /\ \E adults \in 0..MaxAdultsWide :
       state = AfterSelection(<<"b", "o", "o", "k", " ", "a", " ", "f", "l", "i", "g", "h", "t">>, adults, <<F1, F2>>, 2)
  /\ started = <<"search", "present", "get_selection">>
  /\ returned = <<"search", "present", "get_selection">>
  /\ prompt = "none"
  /\ input_line = [prompt |-> "confirm", text |-> <<"y">>]
  /\ local = NoLocal
  /\ raised = NoException
  /\ outcome = "none"
  /\ sort_preference = _detect_sorting_preference(<<"b", "o", "o", "k", " ", "a", " ", "f", "l", "i", "g", "h", "t">>)
  /\ settings \in {[local_currency |-> "USD", enable_currency_conversion |-> TRUE]}
  /\ provider_log = <<>>
  /\ conversion_log = NoConversion

NextBooking ==
  \/ BookingNode
  \/ FirstNameInput("wide")
  \/ LastNameInput("wide")
  \/ GenderInput("wide")
  \/ EmailInput("wide")
  \/ PhoneInput("wide")
  \/ IdChoiceInput("wide")
  \/ AadhaarInput("wide")
  \/ IdNumberInput("wide")

SpecBooking == InitBooking /\ [][NextBooking]_vars

\* ------------------------------------------------------------------------
\* _sort_by_overall_score called on the offer lists of the bounds
\* ------------------------------------------------------------------------
\* an offer with more than four stops
H1 == Offer("H1", 300, "USD", <<"2", "h", " ", "3", "0", "m">>, 5, <<"K", "L", "M">>, <<"2", "0", "2", "5", "-", "1", "1", "-", "2", "0", "T", "1", "0", ":", "0", "0", ":", "0", "0">>)

ScoreOfferLists == SeqsUpTo(OfferPool \cup {H1}, MaxOffers)

InitScore ==
  /\ pc = "best_overall"
  /\ \E offers \in ScoreOfferLists :
       state = AfterSearch(<<"b", "e", "s", "t", " ", "f", "l", "i", "g", "h", "t">>, 1, offers)
  /\ input_line = [prompt |-> "request", text |-> <<"b", "e", "s", "t", " ", "f", "l", "i", "g", "h", "t">>]
  /\ started = <<"search">>
  /\ returned = <<"search">>
  /\ prompt = "none"
  /\ local = NoLocal
  /\ raised = NoException
  /\ outcome = "none"
  /\ sort_preference = NoPreference
  /\ settings \in {[local_currency |-> "USD", enable_currency_conversion |-> TRUE]}
  /\ provider_log = <<>>
  /\ conversion_log = NoConversion

\* _sort_by_overall_score(offers): the sorted list, or the ZeroDivisionError
\* of a score; the scores are kept beside the result
BestOverallCall ==
  /\ pc = "best_overall"
  /\ LET offers == state["flight_results"].original_date_offers
     IN  IF \E i \in 1..Len(offers) : ScoreRaises(offers[i], offers)
         THEN /\ raised' = [cls |-> "ZeroDivisionError", msg |-> "division by zero",
                            at |-> "best_overall"]
              /\ state' = state
         ELSE /\ raised' = raised
              /\ state' = Put(state, "best_overall",
                              [rows |-> _sort_by_overall_score(offers),
                               scores |-> [i \in 1..Len(offers) |->
                                             ScoreParts(offers[i], offers)]])
  /\ pc' = "done"
  /\ UNCHANGED <<started, returned, prompt, input_line, local, outcome,
                 sort_preference, settings, provider_log, conversion_log>>

NextScore == BestOverallCall

SpecScore == InitScore /\ [][NextScore]_vars

\* ------------------------------------------------------------------------
\* The search step over a wider set of provider answers
\* ------------------------------------------------------------------------
WideRequestedAnswers ==
  {ResponseError, Data(<<>>), Data(<<F1, F2>>), Data(<<F3, F1, F4>>), Data(<<F3>>)}

\* adjacent dates: no answer, no offers, cheaper, dearer, as cheap as the
\* cheapest of F1, F2; four offers with the cheapest last and first
WideAdjacentAnswers ==
  {ResponseError, Data(<<>>), Data(<<G1>>), Data(<<G2>>), Data(<<G3>>), Data(<<F1>>),
   Data(<<G2, G4, G3, G1>>), Data(<<G1, G3, G4, G2>>)}

WideProviders == ProvidersOver(WideRequestedAnswers, WideAdjacentAnswers)

InitSearch ==
  /\ pc = "search"
  /\ state = [user_prompt |-> <<"b", "o", "o", "k", " ", "a", " ", "f", "l", "i", "g", "h", "t">>, messages |-> <<Msg("Workflow started", 0)>>]
  /\ input_line = [prompt |-> "request", text |-> <<"b", "o", "o", "k", " ", "a", " ", "f", "l", "i", "g", "h", "t">>]
  /\ started = <<>>
  /\ returned = <<>>
  /\ prompt = "none"
  /\ local = NoLocal
  /\ raised = NoException
  /\ outcome = "none"
  /\ sort_preference = NoPreference
  /\ settings \in {[local_currency |-> "USD", enable_currency_conversion |-> TRUE]}
  /\ provider_log = <<>>
  /\ conversion_log = NoConversion

NextSearch == SearchStep(WideProviders)

SpecSearch == InitSearch /\ [][NextSearch]_vars

\* ------------------------------------------------------------------------
\* AmadeusClient._parse_flight_offer on the provider's offer data
\* ------------------------------------------------------------------------
\* str.replace(k, ''): every occurrence of k removed, left to right
RECURSIVE RemoveSub(_, _)
RemoveSub(s, k) ==
  IF Len(s) < Len(k) THEN s
  ELSE IF SubSeq(s, 1, Len(k)) = k THEN RemoveSub(SubSeq(s, Len(k) + 1, Len(s)), k)
  ELSE <<Head(s)>> \o RemoveSub(Tail(s), k)

\* s.split(c)[0] and s.split(c)[1] for a string that holds the character c
SplitFirst(s, c) == SubSeq(s, 1, SetMin({i \in 1..Len(s) : s[i] = c}) - 1)

SplitNext(s, c) ==
  LET rest == SubSeq(s, SetMin({i \in 1..Len(s) : s[i] = c}) + 1, Len(s))
      more == {i \in 1..Len(rest) : rest[i] = c}
  IN  IF more = {} THEN rest ELSE SubSeq(rest, 1, SetMin(more) - 1)

\* str(n) of a natural number
RECURSIVE DecimalString(_)
DecimalString(n) ==
  IF n < 10 THEN <<CHOOSE c \in Digits : DigitVal(c) = n>>
  ELSE DecimalString(n \div 10) \o DecimalString(n % 10)

\* _format_duration: 'PT2H30M' becomes '2h 30m'; a string whose parts are
\* no integers is returned as it came
_format_duration(iso_duration) ==
  LET duration == RemoveSub(iso_duration, <<"P", "T">>)
      has_h == \E i \in 1..Len(duration) : duration[i] = "H"
      hours_text == SplitFirst(duration, "H")
      after_h == IF has_h THEN SplitNext(duration, "H") ELSE duration
      has_m == \E i \in 1..Len(after_h) : after_h[i] = "M"
      minutes_text == RemoveChar(after_h, "M")
  IN  IF has_h /\ ~IsIntLiteral(hours_text) THEN iso_duration
      ELSE IF has_m /\ ~IsIntLiteral(minutes_text) THEN iso_duration
      ELSE LET hours == IF has_h THEN IntOf(hours_text) ELSE 0
               minutes == IF has_m THEN IntOf(minutes_text) ELSE 0
           IN  IF hours < 0 \/ minutes < 0 THEN iso_duration
               ELSE DecimalString(hours) \o <<"h", " ">> \o DecimalString(minutes) \o <<"m">>

\* the keys _parse_segment reads with [...]: a missing one is a KeyError
SegmentKeys == {"carrierCode", "number", "departure", "arrival"}

\* _parse_segment: the FlightSegment, or None (here <<>>) when a key is missing
_parse_segment(segment_data) ==
  IF SegmentKeys \subseteq DOMAIN segment_data
  THEN <<[departure_airport |-> segment_data["departure"].iataCode,
          arrival_airport |-> segment_data["arrival"].iataCode,
          departure_time |-> segment_data["departure"].at,
          arrival_time |-> segment_data["arrival"].at,
          duration |-> _format_duration(IF "duration" \in DOMAIN segment_data
                                        THEN segment_data["duration"] ELSE <<"P", "T", "0", "H", "0", "M">>),
          carrier_code |-> segment_data["carrierCode"],
          carrier_name |-> segment_data["carrierCode"],
          flight_number |-> segment_data["number"]]>>
  ELSE <<>>

\* the segments of the itineraries that parsed, in order
RECURSIVE ParsedSegments(_)
ParsedSegments(segments_data) ==
  IF segments_data = <<>> THEN <<>>
  ELSE _parse_segment(Head(segments_data)) \o ParsedSegments(Tail(segments_data))

RECURSIVE AllSegments(_)
AllSegments(itineraries) ==
  IF itineraries = <<>> THEN <<>>
  ELSE ParsedSegments(Head(itineraries)["segments"]) \o AllSegments(Tail(itineraries))

\* the keys _parse_flight_offer reads with [...]
OfferKeys == {"id", "price", "itineraries", "travelerPricings", "numberOfBookableSeats"}

\* _parse_flight_offer: the FlightOffer, or None (here <<>>) on any exception;
\* the totals of the model are whole amounts
_parse_flight_offer(offer_data) ==
  IF \/ ~(OfferKeys \subseteq DOMAIN offer_data)
     \/ ~IsIntLiteral(offer_data["price"].total)
     \/ \E i \in 1..Len(offer_data["itineraries"]) :
          "segments" \notin DOMAIN offer_data["itineraries"][i]
  THEN <<>>
  ELSE LET itineraries == offer_data["itineraries"]
           segments == AllSegments(itineraries)
           last == itineraries[Len(itineraries)]
           total_duration ==
             IF itineraries = <<>> THEN <<"0", "h", " ", "0", "m">>
             ELSE _format_duration(IF "duration" \in DOMAIN last THEN last["duration"]
                                   ELSE <<"P", "T", "0", "H", "0", "M">>)
           number_of_stops == SetMax({0, Len(segments) - 1})
       IN  <<[id |-> offer_data["id"],
              price |-> IntOf(offer_data["price"].total),
              currency |-> offer_data["price"].currency,
              segments |-> segments,
              total_duration |-> total_duration,
              number_of_stops |-> number_of_stops,
              booking_class |-> offer_data["travelerPricings"],
              available_seats |-> offer_data["numberOfBookableSeats"]]>>

\* segment data of the provider: two complete ones, one without its number
RawSegment(carrier, from, to, at) ==
  [carrierCode |-> carrier, number |-> "101",
   departure |-> [iataCode |-> from, at |-> at],
   arrival |-> [iataCode |-> to, at |-> at],
   duration |-> <<"P", "T", "2", "H", "3", "0", "M">>]

RawSegments ==
  {RawSegment("DL", "DEL", "DXB", "2025-11-20T09:30:00"),
   RawSegment("UA", "DXB", "BOM", "2025-11-20T15:00:00"),
   [carrierCode |-> "AI", departure |-> [iataCode |-> "DEL", at |-> "2025-11-20T09:30:00"],
    arrival |-> [iataCode |-> "BOM", at |-> "2025-11-20T11:30:00"]]}

\* itineraries: every list of up to MaxSegments segments, with a duration,
\* and one without its segments
RawItineraries ==
  {[duration |-> d, segments |-> q] :
     d \in {<<"P", "T", "5", "H">>, <<"P", "1", "D", "T", "2", "H", "3", "0", "M">>}, q \in SeqsUpTo(RawSegments, MaxSegments)}
  \cup {[duration |-> <<"P", "T", "4", "5", "M">>]}

RawOffers ==
  {[id |-> "1", price |-> [total |-> total, currency |-> "EUR"], itineraries |-> its,
    travelerPricings |-> "ECONOMY", numberOfBookableSeats |-> 9] :
     total \in {<<"3", "0", "0">>, <<"n", ".", "a", ".">>}, its \in SeqsUpTo(RawItineraries, 2)}
  \cup {[id |-> "2", itineraries |-> <<>>]}

InitOffer ==
  /\ pc = "_parse_flight_offer"
  /\ \E offer_data \in RawOffers : local = [step |-> "_parse_flight_offer",
                                            offer_data |-> offer_data]
  /\ state = EmptyState
  /\ input_line = NoInput
  /\ started = <<>>
  /\ returned = <<>>
  /\ prompt = "none"
  /\ raised = NoException
  /\ outcome = "none"
  /\ sort_preference = NoPreference
  /\ settings \in {[local_currency |-> "USD", enable_currency_conversion |-> TRUE]}
  /\ provider_log = <<>>
  /\ conversion_log = NoConversion

\* _search_flights_for_date parses one offer of the response and appends it
\* unless it is None
ParseOfferCall ==
  /\ pc = "_parse_flight_offer"
  /\ state' = Put(state, "offers", _parse_flight_offer(local.offer_data))
  /\ pc' = "done"
  /\ UNCHANGED <<started, returned, prompt, input_line, local, raised, outcome,
                 sort_preference, settings, provider_log, conversion_log>>

NextOffer == ParseOfferCall

SpecOffer == InitOffer /\ [][NextOffer]_vars


\* ------------------------------------------------------------------------
\* FlightSearchAgent._parse_user_request: the conversation with the LLM
\* ------------------------------------------------------------------------
max_iterations == 10

\* a tool call of a response: a call of the airport lookup, a call of a
\* function that is not in tool_functions, or a call whose arguments are not
\* JSON
ToolCallKinds == {"get_primary_airport", "unknown", "bad arguments"}

\* how the content of a response carries a JSON object: as the whole
\* content, inside a ``` code block, or inside other text
Forms == {"pure", "fenced", "embedded"}

\* the JSON object of a response: all fields given, or one of them an empty
\* string or null
JsonObjects ==
  LET complete == ParsedRequest(<<"2", "0", "2", "5", "-", "1", "1", "-", "2", "0">>, 1)
  IN  {complete,
       [complete EXCEPT !.origin_code = ""],
       [complete EXCEPT !.departure_date = <<>>],
       [complete EXCEPT !.destination_code = "None"],
       [complete EXCEPT !.origin_city = "None"]}

\* the content of a response: none, text with no JSON object, or a JSON
\* object in one of the forms
Contents ==
  {[form |-> "None", data |-> <<>>], [form |-> "text", data |-> <<>>]}
  \cup {[form |-> f, data |-> d] : f \in Forms, d \in JsonObjects}

\* what chat.completions.create does: it raises or returns a message
LlmResponses ==
  {[kind |-> "raise", tool_calls |-> <<>>, content |-> [form |-> "None", data |-> <<>>]]}
  \cup {[kind |-> "message", tool_calls |-> t, content |-> c] :
          t \in UNION {[1..n -> ToolCallKinds] : n \in 0..MaxToolCalls},
          c \in Contents}

\* missing_or_none: the required fields for which "not parsed_data.get(field)"
MissingOrNone(parsed_data) ==
  {field \in {"origin_code", "destination_code"} : parsed_data[field] \in {"", "None"}}
  \cup (IF parsed_data.departure_date = <<>> THEN {"departure_date"} ELSE {})

\* ParsedFlightRequest.model_validate accepts the data: every str field is a
\* string, the empty one too
model_validate(parsed_data) ==
  \A field \in {"origin_city", "origin_code", "destination_city", "destination_code"} :
    parsed_data[field] # "None"

\* messages[-3:]
LastThree(messages) ==
  SubSeq(messages, SetMax({1, Len(messages) - 2}), Len(messages))

\* use_json_mode: from the third iteration on, when none of the last three
\* messages is a tool result
use_json_mode(iteration, messages) ==
  /\ iteration > 2
  /\ ~ \E i \in 1..Len(LastThree(messages)) : LastThree(messages)[i] = "tool"

\* a loop that never leaves by its test
WhileTrue(iteration) == TRUE

\* while iteration < max_iterations
WhileTest(iteration) == iteration < max_iterations

\* the tool messages appended for the tool calls of a response
ToolMessages(tool_calls) ==
  [i \in 1..Len(SelectSeq(tool_calls, LAMBDA k : k = "get_primary_airport")) |-> "tool"]

\* the frame of _parse_user_request; messages holds the roles of the last
\* three messages, which is all the method reads of them
ParseFrame(iteration, messages, llm_calls, result, parsed) ==
  [step |-> "_parse_user_request", iteration |-> iteration,
   messages |-> LastThree(messages), llm_calls |-> llm_calls, result |-> result,
   parsed |-> parsed]

\* the method is left by an exception
ParseRaise(cls, msg) ==
  /\ raised' = [cls |-> cls, msg |-> msg, at |-> "_parse_user_request"]
  /\ local' = ParseFrame(local.iteration + 1, local.messages, local.llm_calls + 1, "raise", <<>>)
  /\ pc' = "done"

\* return parsed
ParseReturn(parsed) ==
  /\ raised' = raised
  /\ local' = ParseFrame(local.iteration + 1, local.messages, local.llm_calls + 1,
                         "ParsedFlightRequest", parsed)
  /\ pc' = "done"

\* the end of the loop body or a continue: the loop's test decides between
\* another iteration and the raise after the loop
ParseContinue(messages) ==
  IF WhileTest(local.iteration + 1)
  THEN /\ raised' = raised
       /\ local' = ParseFrame(local.iteration + 1, messages, local.llm_calls + 1, "none", <<>>)
       /\ pc' = "_parse_user_request"
  ELSE ParseRaise("Exception", "Failed to parse user request after maximum iterations")

\* the re-prompt of a final response that cannot be used: another user
\* message while iteration < max_iterations - 1, else the exception e
Reprompt(messages, cls, msg) ==
  IF local.iteration + 1 < max_iterations - 1
  THEN ParseContinue(Append(messages, "user"))
  ELSE ParseRaise(cls, msg)

\* the final response of the agent: pure JSON is checked for its required
\* fields and validated; JSON found in a code block or in other text is only
\* validated, and a failure of that is passed over
FinalResponse(messages, content) ==
  CASE content.form = "None" ->
         ParseRaise("TypeError", "the JSON object must be str, bytes or bytearray, not NoneType")
    [] content.form = "pure" ->
         IF MissingOrNone(content.data) # {}
         THEN Reprompt(messages, "ValueError", "Could not parse flight request.")
         ELSE IF model_validate(content.data) THEN ParseReturn(content.data)
         ELSE ParseRaise("ValidationError", "validation error for ParsedFlightRequest")
    [] content.form \in {"fenced", "embedded"} ->
         IF model_validate(content.data) THEN ParseReturn(content.data)
         ELSE Reprompt(messages, "JSONDecodeError", "Could not extract valid JSON")
    [] content.form = "text" ->
         Reprompt(messages, "JSONDecodeError", "Could not extract valid JSON")

InitParse ==
  /\ pc = "_parse_user_request"
  /\ local = ParseFrame(0, <<"system", "user">>, 0, "none", <<>>)
  /\ state = EmptyState
  /\ input_line = NoInput
  /\ started = <<>>
  /\ returned = <<>>
  /\ prompt = "none"
  /\ raised = NoException
  /\ outcome = "none"
  /\ sort_preference = NoPreference
  /\ settings \in {[local_currency |-> "USD", enable_currency_conversion |-> TRUE]}
  /\ provider_log = <<>>
  /\ conversion_log = NoConversion

\* one iteration of the loop: one call of the LLM and what the method does
\* with the response
ParseIteration ==
  /\ pc = "_parse_user_request"
  /\ WhileTest(local.iteration)
  /\ \E response \in LlmResponses :
       LET json_mode == use_json_mode(local.iteration + 1, local.messages)
           messages == Append(local.messages, "assistant")
       IN  IF response.kind = "raise"
           THEN ParseRaise("OpenAIError", "Connection error.")
           ELSE IF response.tool_calls # <<>> /\ ~ json_mode
           THEN IF \E i \in 1..Len(response.tool_calls) :
                     response.tool_calls[i] = "bad arguments"
                THEN ParseRaise("JSONDecodeError", "Expecting value")
                ELSE ParseContinue(messages \o ToolMessages(response.tool_calls))
           ELSE FinalResponse(messages, response.content)
  /\ UNCHANGED <<state, started, returned, prompt, input_line, outcome,
                 sort_preference, settings, provider_log, conversion_log>>

NextParse == ParseIteration

\* the loop is straight-line code: while it is inside the loop the next
\* call is made
SpecParse == InitParse /\ [][NextParse]_vars /\ WF_vars(NextParse)

\* ------------------------------------------------------------------------
\* Properties
\* ------------------------------------------------------------------------
Range(q) == {q[i] : i \in 1..Len(q)}

Last(q) == q[Len(q)]

\* the order the specification gives the six steps in
NodeOrder == <<"search", "present", "get_selection", "book", "generate_ticket", "notify">>

IsPrefixOfNodeOrder(q) ==
  Len(q) <= Len(NodeOrder) /\ \A i \in 1..Len(q) : q[i] = NodeOrder[i]

\* the offers of the requested date as the search step stored them
RequestedOffers == state["flight_results"].original_date_offers

\* C1: the steps run in the order search, present, get_selection, book,
\* generate_ticket, notify: the steps entered so far and the steps returned
\* so far are both an initial part of that order (so none runs twice and
\* none runs after a later one), and a step is entered only when every
\* step entered before it has returned.
C1_FixedOrder ==
  /\ IsPrefixOfNodeOrder(started)
  /\ IsPrefixOfNodeOrder(returned)
  /\ Len(returned) <= Len(started)
  /\ Len(started) <= Len(returned) + 1

C1_Witness == started = NodeOrder /\ returned = NodeOrder

\* C2: a run in which the search found offers, the operator chose and
\* confirmed one and gave the passenger details, the booking was made and no
\* LLM call failed ends with the notify step run and workflow_complete set.
C2_HappyRunCompletes ==
  (pc = "done" /\ "book" \in Range(returned) /\ raised.cls # "OpenAIError")
    => /\ "notify" \in Range(started)
       /\ Has(state, "workflow_complete")
       /\ state["workflow_complete"] = TRUE

\* C3: once a step has raised, the run is over: the failing step is the last
\* one entered and was entered once, no later step was entered, the
\* exception main received is the one that step raised, and an Exception is
\* printed by main as an error, with its text in the state's error field.
C3_FailureAborts ==
  raised # NoException
    => /\ pc = "done"
       /\ prompt = "none"
       /\ started # <<>>
       /\ Last(started) = raised.at
       /\ Cardinality({i \in 1..Len(started) : started[i] = raised.at}) = 1
       /\ Len(returned) = Len(started) - 1
       /\ raised.at \notin Range(returned)
       /\ isinstance(raised, "Exception")
            => outcome = "Error" /\ Has(state, "error") /\ state["error"] = raised.msg

C3_Witness ==
  /\ raised.cls = "AttributeError"
  /\ raised.at = "generate_ticket"
  /\ outcome = "Error"
  /\ returned = <<"search", "present", "get_selection", "book">>

\* the last console line was a cancel word
CancelTyped == Lower(Strip(input_line.text)) \in CancelWords

\* C4: a cancel word at the selection prompt, the confirmation prompt or
\* the first-name prompt ends the run with a KeyboardInterrupt that reaches
\* main, which prints BOOKING CANCELLED (not the error outcome, and not an
\* unhandled exception).
C4_CancelReachesMain ==
  (input_line.prompt \in {"selection", "confirm", "first_name"} /\ CancelTyped)
    => /\ pc = "done"
       /\ raised.cls = "KeyboardInterrupt"
       /\ outcome = "BOOKING CANCELLED"

C4_Witness ==
  /\ input_line.prompt = "first_name"
  /\ CancelTyped
  /\ outcome = "BOOKING CANCELLED"
  /\ Last(started) = "book"

\* C5: a cancelled run is incomplete and not errored: the state has neither
\* workflow_complete nor error, and the cancelling step is the last one
\* entered.
C5_CancelledNotErrored ==
  outcome = "BOOKING CANCELLED"
    => /\ pc = "done"
       /\ ~Has(state, "workflow_complete")
       /\ ~Has(state, "error")
       /\ Last(started) = raised.at
       /\ Len(returned) = Len(started) - 1

C5_Witness ==
  /\ outcome = "BOOKING CANCELLED"
  /\ input_line.prompt = "confirm"
  /\ Has(state, "selected_offer")
  /\ Last(started) = "get_selection"

PassengerPrompts ==
  {"first_name", "last_name", "gender", "email", "phone", "id_choice", "aadhaar", "id_number"}

\* C6: the word cancel typed at any passenger prompt (first name, last name,
\* gender, email, phone, ID type, the 12-digit ID loop, another ID number)
\* ends the run as a user cancellation.
C6_CancelAtEveryPrompt ==
  (input_line.prompt \in PassengerPrompts /\ Lower(Strip(input_line.text)) = <<"c", "a", "n", "c", "e", "l">>)
    => /\ raised.cls = "KeyboardInterrupt"
       /\ outcome = "BOOKING CANCELLED"

Rows == state["presentation"].rows

Presented == pc = "get_selection" /\ Has(state, "presentation") /\ RequestedOffers # <<>>

\* the key of a deterministic sort category, and whether it sorts downwards
CategoryKey(type) ==
  CASE type = "price_low" -> "price"
    [] type = "price_high" -> "price"
    [] type = "duration_short" -> "duration"
    [] type = "direct" -> "stops_price"
    [] type = "airline" -> "carrier"

DeterministicCategories == {"price_low", "price_high", "duration_short", "direct", "airline"}

\* the place of an offer in a list of distinct offers
IndexIn(q, x) == CHOOSE i \in 1..Len(q) : q[i] = x

\* C8: for a non-empty offer list and a request whose category is
\* price-low, price-high, fastest, direct-only or airline, the printed rows
\* are a permutation of the list, consecutive rows have non-decreasing keys
\* (non-increasing for price-high), and offers of equal key are in the order
\* of the list.
C8_StableSortByKey ==
  (Presented /\ sort_preference.type \in DeterministicCategories)
    => LET key == CategoryKey(sort_preference.type)
           down == sort_preference.type = "price_high"
           input == RequestedOffers
       IN  /\ Len(Rows) = Len(input)
           /\ Range(Rows) = Range(input)
           /\ \A i \in 1..(Len(Rows) - 1) :
                IF down THEN ~KeyLess(key, Rows[i], Rows[i + 1])
                ELSE ~KeyLess(key, Rows[i + 1], Rows[i])
           /\ \A i, j \in 1..Len(input) :
                (i < j /\ ~KeyLess(key, input[i], input[j])
                       /\ ~KeyLess(key, input[j], input[i]))
                  => IndexIn(Rows, input[i]) < IndexIn(Rows, input[j])

C8_Witness ==
  /\ Presented
  /\ sort_preference.type = "price_high"
  /\ RequestedOffers = <<F2, F1, F4>>
  /\ Rows = <<F1, F2, F4>>

\* the categories in the order of the specification, with their keywords
PriorityOrder ==
  <<[type |-> "price_low", keywords |-> PriceLowKeywords],
    [type |-> "price_high", keywords |-> PriceHighKeywords],
    [type |-> "time_early", keywords |-> EarlyKeywords],
    [type |-> "time_late", keywords |-> LateKeywords],
    [type |-> "duration_short", keywords |-> FastKeywords],
    [type |-> "direct", keywords |-> DirectKeywords],
    [type |-> "airline", keywords |-> AirlineKeywords]>>

\* the categories with a keyword in the lowercase request
Matching(text) ==
  {i \in 1..Len(PriorityOrder) : AnyKeywordIn(PriorityOrder[i].keywords, Lower(text))}

\* C9: the detected category is the first one, in the order price-low,
\* price-high, early, late, fastest, direct-only, airline, with a keyword in
\* the lowercase request, and price-low when there is none; with no keyword
\* the offers priced 500, 300, 700 are printed as 300, 500, 700.
C9_FirstCategoryWins ==
  Presented
    => LET matching == Matching(state["user_prompt"])
       IN  /\ sort_preference.type =
                IF matching = {} THEN "price_low" ELSE PriorityOrder[SetMin(matching)].type
           /\ (matching = {} /\ RequestedOffers = <<F1, F2, F3>>)
                => [i \in 1..3 |-> Rows[i].price] = <<300, 500, 700>>

C9_Witness ==
  /\ Presented
  /\ Matching(state["user_prompt"]) = {4, 5}
  /\ sort_preference.type = "time_late"

\* the printed rows are in ascending order of total minutes
ByDurationAscending ==
  \A i \in 1..(Len(Rows) - 1) :
    _parse_duration_minutes(Rows[i].total_duration)
      <= _parse_duration_minutes(Rows[i + 1].total_duration)

HasFastest == Contains(Lower(state["user_prompt"]), <<"f", "a", "s", "t", "e", "s", "t">>)

\* C10 as stated: whenever the request contains the word fastest, the
\* offers are printed in ascending order of duration.
C10_FastestAlwaysByDuration == (Presented /\ HasFastest) => ByDurationAscending

\* C10: when the request contains the word fastest and no keyword of the
\* four categories tested before it (price-low, price-high, early, late),
\* the offers are printed in ascending order of total minutes; those of
\* 5h 0m, 2h 30m and 3h 15m are printed as 150, 195, 300 minutes.
C10_FastestByDuration ==
  (Presented /\ HasFastest /\ Matching(state["user_prompt"]) \cap 1..4 = {})
    => /\ sort_preference.type = "duration_short"
       /\ ByDurationAscending
       /\ RequestedOffers = <<F1, F2, F3>>
            => [i \in 1..3 |-> _parse_duration_minutes(Rows[i].total_duration)]
                 = <<150, 195, 300>>

C10_Witness ==
  /\ Presented
  /\ state["user_prompt"] = <<"F", "A", "S", "T", "E", "S", "T", " ", "f", "l", "i", "g", "h", "t">>
  /\ RequestedOffers = <<F1, F2, F3>>
  /\ Rows = <<F2, F3, F1>>

\* the offers _sort_by_overall_score returned and the scores it computed, in
\* the order of the list it was given
BestRows == state["best_overall"].rows

BestScores == state["best_overall"].scores

BestCalled == pc = "done" /\ (Has(state, "best_overall") \/ raised # NoException)

\* ten times 0.5 * price + 0.3 * duration + 0.2 * stops as a fraction
Blend(parts) ==
  [num |-> 5 * parts.price_score.num * parts.duration_score.den
             + 3 * parts.duration_score.num * parts.price_score.den
             + 2 * parts.stops_score * parts.price_score.den * parts.duration_score.den,
   den |-> parts.price_score.den * parts.duration_score.den]

\* a <= b for two fractions of the same positive denominator
FractionLeq(a, b) == a.den = b.den /\ a.num <= b.num

\* C11: the blended-score sort of a non-empty list raises no division by
\* zero; a dimension whose values are all equal scores 0 for every offer,
\* the stops score is the smaller of 25 * stops and 100, the result is a
\* permutation of the list in ascending order of 0.5 * price + 0.3 *
\* duration + 0.2 * stops; two offers of equal price with durations 5h 0m
\* and 2h 30m and 1 and 0 stops score 35 and 0.
C11_BlendedScore ==
  (BestCalled /\ RequestedOffers # <<>>)
    => /\ raised = NoException
       /\ Has(state, "best_overall")
       /\ LET offers == RequestedOffers
              score(x) == Blend(BestScores[IndexIn(offers, x)])
          IN  /\ Len(BestRows) = Len(offers) /\ Range(BestRows) = Range(offers)
              /\ \A i \in 1..Len(offers) :
                   /\ BestScores[i].price_score.den > 0
                   /\ BestScores[i].duration_score.den > 0
                   /\ BestScores[i].stops_score = SetMin({25 * offers[i].number_of_stops, 100})
                   /\ (\A j \in 1..Len(offers) : offers[j].price = offers[i].price)
                        => BestScores[i].price_score.num = 0
                   /\ (\A j \in 1..Len(offers) :
                         _parse_duration_minutes(offers[j].total_duration)
                           = _parse_duration_minutes(offers[i].total_duration))
                        => BestScores[i].duration_score.num = 0
              /\ \A i \in 1..(Len(BestRows) - 1) :
                   FractionLeq(score(BestRows[i]), score(BestRows[i + 1]))
              /\ offers = <<F4, F2>>
                   => /\ BestRows = <<F2, F4>>
                      /\ score(F4).num = 350 * score(F4).den
                      /\ score(F2).num = 0

C11_Witness ==
  /\ BestCalled
  /\ RequestedOffers = <<F4, H1, F2>>
  /\ BestRows = <<F2, H1, F4>>

\* the search step has returned its results
Searched == "search" \in Range(returned)

Alternatives == state["flight_results"].alternative_offers

\* the offers the provider gave for the i-th search of the log
LoggedOffers(i) ==
  IF provider_log[i].answer.kind = "data" THEN provider_log[i].answer.data ELSE <<>>

\* the searches of the log made for a date
SearchesOf(departure_date) ==
  {i \in 1..Len(provider_log) : provider_log[i].date = departure_date}

\* C12: every AlternativeDateOffer of the results is for a searched date
\* whose cheapest price is below the requested date's cheapest price, its
\* price_difference is the one minus the other and negative; a searched
\* adjacent date whose cheapest price is not below it is not recorded.
C12_AlternativesCheaper ==
  Searched
    => /\ RequestedOffers = <<>> => Alternatives = <<>>
       /\ \A k \in 1..Len(Alternatives) :
            \E i \in SearchesOf(Alternatives[k].departure_date) :
              /\ i > 1
              /\ LoggedOffers(i) # <<>>
              /\ MinPrice(LoggedOffers(i)) < MinPrice(RequestedOffers)
              /\ Alternatives[k].price_difference
                   = MinPrice(LoggedOffers(i)) - MinPrice(RequestedOffers)
              /\ Alternatives[k].price_difference < 0
       /\ \A i \in 2..Len(provider_log) :
            (LoggedOffers(i) # <<>> /\ MinPrice(LoggedOffers(i)) >= MinPrice(RequestedOffers))
              => \A k \in 1..Len(Alternatives) :
                   Alternatives[k].departure_date # provider_log[i].date

C12_Witness ==
  /\ Searched
  /\ Len(provider_log) = 3
  /\ provider_log[1].answer = Data(<<F1, F2>>)
  /\ provider_log[2].answer = Data(<<G3>>)
  /\ provider_log[3].answer = Data(<<G1>>)
  /\ Len(Alternatives) = 1
  /\ Alternatives[1].price_difference = -50

\* C13: the offers kept for a recorded date are its three cheapest: at most
\* three, no offer of that date left out is cheaper than one kept, and the
\* date's cheapest offer is kept.
C13_TopThreeCheapest ==
  Searched
    => \A k \in 1..Len(Alternatives) :
         \A i \in SearchesOf(Alternatives[k].departure_date) :
           LET kept == Range(Alternatives[k].offers)
               dropped == Range(LoggedOffers(i)) \ kept
           IN  /\ Len(Alternatives[k].offers) <= 3
               /\ kept \subseteq Range(LoggedOffers(i))
               /\ \A x \in dropped, y \in kept : x.price >= y.price
               /\ \E y \in kept : y.price = MinPrice(LoggedOffers(i))

\* the dates of the searches sent to the provider, in order
SearchedDates == [i \in 1..Len(provider_log) |-> provider_log[i].date]

RequestedDate == state["search_request"].departure_date

\* C14 as stated: search_flights searches the requested date, the day
\* before and the day after, in that order, and no other date.
C14_AlwaysBothAdjacentDates ==
  Searched => SearchedDates = <<RequestedDate, RequestedDate - 1, RequestedDate + 1>>

\* C14: search_flights searches the requested date first; when that date
\* has at least one offer it then searches the day before and the day
\* after, in that order, and no other date; when it has none (no offers or
\* a provider error) it searches no other date.
C14_AdjacentDatesWhenOffers ==
  Searched
    => SearchedDates =
         IF RequestedOffers = <<>> THEN <<RequestedDate>>
         ELSE <<RequestedDate, RequestedDate - 1, RequestedDate + 1>>

C14_Witness ==
  /\ Searched
  /\ RequestedOffers = <<F3>>
  /\ SearchedDates = <<RequestedDate, RequestedDate - 1, RequestedDate + 1>>
  /\ provider_log[2].answer = ResponseError

\* the offers _parse_flight_offer assembled
AssembledOffers == IF Has(state, "offers") THEN Range(state["offers"]) ELSE {}

\* C15: every FlightOffer that _parse_flight_offer assembles has at least
\* one segment and number_of_stops equal to its number of segments minus
\* one, which is not negative, also when segments of the provider's data
\* fail to parse.
C15_StopsAreSegmentsMinusOne ==
  \A offer \in AssembledOffers :
    /\ Len(offer.segments) >= 1
    /\ offer.number_of_stops = Len(offer.segments) - 1
    /\ offer.number_of_stops >= 0

\* the ID number of the passenger recorded last
LastIdNumber ==
  IF pc = "book" THEN Last(local.passengers).id_number
  ELSE Last(state["passengers"]).id_number

\* the 12-digit prompt returned: a passenger was recorded and another
\* prompt, or the booking, follows
AadhaarReturned ==
  /\ prompt # "aadhaar"
  /\ raised = NoException
  /\ IF pc = "book" THEN local.passengers # <<>> ELSE Has(state, "passengers")

\* the 12-digit prompt is shown again
AadhaarRepeats == pc = "book" /\ prompt = "aadhaar" /\ raised = NoException

\* the line typed at the 12-digit prompt without blanks and hyphens
TypedDigits ==
  SelectSeq(input_line.text, LAMBDA c : c \notin {" ", "-"})

TypedTwelveDigits ==
  Len(TypedDigits) = 12 /\ \A i \in 1..Len(TypedDigits) : TypedDigits[i] \in Digits

\* DDDD-DDDD-DDDD
GroupedForm(s) ==
  /\ Len(s) = 14
  /\ \A i \in 1..14 : IF i \in {5, 10} THEN s[i] = "-" ELSE s[i] \in Digits

\* C16 as stated: a line of 12 digits, with or without separators, is
\* returned as DDDD-DDDD-DDDD, and every other line is rejected and the
\* prompt repeats.
C16_EveryOtherLineRejected ==
  input_line.prompt = "aadhaar"
    => IF TypedTwelveDigits THEN AadhaarReturned /\ GroupedForm(LastIdNumber)
       ELSE AadhaarRepeats

\* C16: the 12-digit prompt returns only strings of the form
\* DDDD-DDDD-DDDD: a line of 12 digits, with or without blanks and hyphens,
\* is returned in groups of four joined by hyphens (123456789012 and
\* 1234-5678-9012 both give 1234-5678-9012); a blank line returns the demo
\* number 1234-5678-9012; every other line is rejected and the prompt
\* repeats.
C16_AadhaarFormat ==
  input_line.prompt = "aadhaar"
    => /\ IF TypedTwelveDigits
          THEN /\ AadhaarReturned
               /\ GroupedForm(LastIdNumber)
               /\ SelectSeq(LastIdNumber, LAMBDA c : c # "-") = TypedDigits
          ELSE IF Strip(input_line.text) = <<>>
          THEN AadhaarReturned /\ LastIdNumber = <<"1", "2", "3", "4", "-", "5", "6", "7", "8", "-", "9", "0", "1", "2">>
          ELSE AadhaarRepeats
       /\ input_line.text \in {<<"1", "2", "3", "4", "5", "6", "7", "8", "9", "0", "1", "2">>, <<"1", "2", "3", "4", "-", "5", "6", "7", "8", "-", "9", "0", "1", "2">>}
            => LastIdNumber = <<"1", "2", "3", "4", "-", "5", "6", "7", "8", "-", "9", "0", "1", "2">>

C16_Witness ==
  /\ input_line = [prompt |-> "aadhaar", text |-> <<"9", "8", "7", "6", "-", "5", "4", "3", "2", "1", "0", "9", "8">>]
  /\ AadhaarReturned
  /\ LastIdNumber = <<"9", "8", "7", "6", "-", "5", "4", "3", "2", "-", "1", "0", "9", "8">>

\* the price breakdown of the ticket in the state, in hundredths
TicketPrices == state["formatted_ticket"].prices

\* C17: when the ticket step has run (and its LLM call did not fail), the
\* configuration holds the surcharge percentage and the ticket's price
\* breakdown has surcharge = round(base * rate / 100, 2) and total = base +
\* surcharge beside the base amount; base 100.00 at 10% gives 10.00 and
\* 110.00.
C17_SurchargeFromConfiguration ==
  ("generate_ticket" \in Range(started) /\ raised.cls # "OpenAIError")
    => /\ "gst_rate" \in DOMAIN settings
       /\ Has(state, "formatted_ticket")
       /\ TicketPrices.gst_rate = settings.gst_rate
       /\ TicketPrices.gst_amount = RoundDiv(TicketPrices.base_fare * TicketPrices.gst_rate, 100)
       /\ TicketPrices.total_price = TicketPrices.base_fare + TicketPrices.gst_amount
       /\ (TicketPrices.base_fare = 10000 /\ TicketPrices.gst_rate = 10)
            => TicketPrices.gst_amount = 1000 /\ TicketPrices.total_price = 11000

\* the ticket step called convert_currency and it raised
ConversionFailed == conversion_log.kind = "error"

RequestedDateFailed ==
  /\ provider_log # <<>>
  /\ provider_log[1].answer.kind = "ResponseError"

\* C19: when the provider's call for the requested date fails, the search
\* step raises that error and neither present nor any later step starts.
C19_ProviderErrorTerminatesRun ==
  RequestedDateFailed
    => /\ raised.cls = "ResponseError"
       /\ raised.at = "search"
       /\ "search" \notin Range(returned)
       /\ "present" \notin Range(started)

\* the calls of chat.completions.create that _parse_user_request has made
LlmCalls == local.llm_calls

ParseEnded == pc = "done"

\* C20: whatever the LLM answers, _parse_user_request makes at most
\* max_iterations (10) calls of the LLM, it is inside its loop only while
\* fewer calls were made, it always ends, and it ends by returning a parsed
\* request or by raising an exception.
C20_BoundedReprompting ==
  /\ [](/\ LlmCalls <= max_iterations
        /\ ~ ParseEnded => LlmCalls < max_iterations
        /\ ParseEnded => \/ local.result = "ParsedFlightRequest" /\ raised = NoException
                         \/ local.result = "raise" /\ raised # NoException)
  /\ <>ParseEnded

\* ten calls were made, each answered with tool calls, and the method gave up
C20_Witness ==
  /\ ParseEnded
  /\ LlmCalls = max_iterations
  /\ raised.cls = "Exception"
  /\ raised.msg = "Failed to parse user request after maximum iterations"


\* ------------------------------------------------------------------------
\* The shared state across the steps
\* ------------------------------------------------------------------------
\* the keys BookingState assigns to each step, and those of run's initial
\* state
OutputKeys(step) ==
  CASE step = "main_input" -> {"user_prompt", "messages"}
    [] step = "search" -> {"parsed_request", "search_request", "flight_results"}
    [] step = "present" -> {"presentation"}
    [] step = "get_selection" -> {"selected_offer", "selection_number"}
    [] step = "book" -> {"passengers", "booking_confirmation"}
    [] step = "generate_ticket" -> {"formatted_ticket"}
    [] step = "notify" -> {"workflow_complete", "completion_time"}
    [] OTHER -> {}

\* the keys a step adds or gives another value
WrittenKeys == {k \in DOMAIN state' : k \notin DOMAIN state \/ state'[k] # state[k]}

\* C21: every step keeps all keys of the shared state; the keys it adds or
\* changes are its own output keys, the message log of its node wrapper, and
\* error, which is written only by a step that fails.
C21_AppendOnly ==
  [][/\ DOMAIN state \subseteq DOMAIN state'
     /\ WrittenKeys \subseteq OutputKeys(pc) \cup {"messages", "error"}
     /\ "error" \in WrittenKeys => raised = NoException /\ raised' # NoException]_vars

\* all steps have run and every key written on the way is still there
C21_Witness ==
  /\ returned = <<"search", "present", "get_selection", "book", "generate_ticket", "notify">>
  /\ DOMAIN state = UNION {OutputKeys(step) : step \in Nodes \cup {"main_input"}}

\* the number of times a node was entered
TimesStarted(node) == Cardinality({i \in 1..Len(started') : started'[i] = node})

C23_SelectedIsDisplayedRow ==
  Has(state, "selected_offer") => state["selected_offer"] = Rows[state["selection_number"]]

\* the ordering rules _sort_flights_by_preference has a branch for and the
\* specification names
OfferedRules ==
  {"price_low", "price_high", "time_early", "time_late", "duration_short", "direct",
   "airline", "best_overall"}

\* request texts that ask for the blended score in words
BlendedRequestTexts ==
  {<<"b", "e", "s", "t", " ", "o", "v", "e", "r", "a", "l", "l", " ", "f", "l", "i", "g", "h", "t">>, <<"b", "a", "l", "a", "n", "c", "e", "d">>, <<"b", "l", "e", "n", "d", "e", "d", " ", "s", "c", "o", "r", "e">>, <<"b", "e", "s", "t", " ", "f", "l", "i", "g", "h", "t">>}

\* C24: for each ordering rule there is a request text for which
\* _detect_sorting_preference selects it, and _sort_flights_by_preference
\* then sorts the offers found by it.
C24_EveryRuleReachable ==
  Has(state, "flight_results")
    => \A type \in OfferedRules :
         \E text \in SortRequestTexts \cup BlendedRequestTexts :
           /\ _detect_sorting_preference(text).type = type
           /\ _sort_flights_by_preference(RequestedOffers, text)
                = SortByType(RequestedOffers, type)

Confirmation == state["booking_confirmation"]

\* C25: once the booking step has returned, the booking confirmation holds
\* the selected offer, that offer's price and currency, and the passengers
\* stored under state["passengers"].
C25_ConfirmationFromSelection ==
  "book" \in Range(returned)
    => /\ Confirmation.flight_offer = state["selected_offer"]
       /\ Confirmation.total_price = state["selected_offer"].price
       /\ Confirmation.currency = state["selected_offer"].currency
       /\ Confirmation.passengers = state["passengers"]

\* the offer of 300 EUR was booked for two passengers: neither 0 nor USD
C25_Witness ==
  /\ "book" \in Range(returned)
  /\ state["selected_offer"] = F2
  /\ Confirmation.total_price = 300
  /\ Confirmation.currency = "EUR"
  /\ Len(Confirmation.passengers) = 2

Complete == Has(state, "workflow_complete") /\ state["workflow_complete"] = TRUE

SelectionConfirmed == "get_selection" \in Range(returned)

\* C27: selected_offer and selection_number are in the state only once the
\* operator has confirmed the selection; a step of the selection loop that
\* reads an 'info' command or an invalid input leaves the state as it was.
C27_SelectedOnlyWhenConfirmed ==
  /\ [](Has(state, "selected_offer") \/ Has(state, "selection_number")
          => SelectionConfirmed)
  /\ [][(pc = "get_selection" /\ prompt = "selection" /\ prompt' = "selection")
          => state' = state]_vars

\* the search step returned no offer for the requested date
NoOffersFound == Has(state, "flight_results") /\ RequestedOffers = <<>>

\* C28: when the search returns no offer for the requested date, no adjacent
\* date is searched or recorded, the run goes through the present step and
\* ends in the selection step with "No flights available for selection"
\* before any prompt is shown, and the state never holds a selected offer, a
\* passenger list or a booking confirmation.
C28_NoOffersEndsAtSelection ==
  NoOffersFound
    => /\ state["flight_results"].alternative_offers = <<>>
       /\ Len(provider_log) = 1
       /\ pc \in {"present", "get_selection", "done"}
       /\ prompt = "none"
       /\ input_line.prompt = "request"
       /\ DOMAIN state \cap {"selected_offer", "selection_number", "passengers",
                             "booking_confirmation"} = {}
       /\ pc = "get_selection" => returned = <<"search", "present">>
       /\ pc = "done" => /\ returned = <<"search", "present">>
                         /\ started = <<"search", "present", "get_selection">>
                         /\ raised = [cls |-> "ValueError",
                                      msg |-> "No flights available for selection",
                                      at |-> "get_selection"]

C28_Witness ==
  /\ NoOffersFound
  /\ provider_log[1].answer = Data(<<>>)
  /\ pc = "done"
  /\ raised.msg = "No flights available for selection"
  /\ state["error"] = "No flights available for selection"
  /\ Has(state, "presentation")

\* _parse_user_request has returned a ParsedFlightRequest
ParseReturned == local.result = "ParsedFlightRequest"

\* C29: every ParsedFlightRequest that _parse_user_request returns has a
\* non-empty origin_code, destination_code and departure_date.
C29_ReturnedRequestComplete ==
  ParseReturned
    => /\ local.parsed.origin_code \notin {"", "None"}
       /\ local.parsed.destination_code \notin {"", "None"}
       /\ local.parsed.departure_date # <<>>

\* the passengers of a returned booking step were collected as prompted: one
\* for each adult, the gender M or F, and a 12-digit ID in groups of four
PassengersAsPrompted ==
  /\ Len(state["passengers"]) = state["parsed_request"].adults
  /\ \A i \in 1..Len(state["passengers"]) :
       LET passenger == state["passengers"][i]
       IN  /\ passenger.gender \in {<<"M">>, <<"F">>}
           /\ passenger.id_type \in {"AADHAAR", "PASSPORT", "DRIVING_LICENSE"}
           /\ passenger.id_type = "AADHAAR" => GroupedForm(passenger.id_number)

\* C30: once the booking step has returned, there is one passenger record for
\* each adult of the parsed request, the confirmation carries at least one
\* passenger, every gender is M or F, and every passenger whose ID type is
\* the 12-digit one has an ID number of the form DDDD-DDDD-DDDD.
C30_OnePassengerPerAdult ==
  "book" \in Range(returned)
    => /\ PassengersAsPrompted
       /\ Len(Confirmation.passengers) >= 1

====
